---- MODULE Spec2Model ----
(***************************************************************************)
(* A model of framework/db_utils.py: the DBUtils wrapper around a query    *)
(* executor (self.db.execute_query); of the AES-256-GCM cipher helper of   *)
(* tests/sql/test_vault.py; of the vault tables that                       *)
(* framework/base_test.py creates; of DatabaseManager.execute_query        *)
(* (framework/db_manager.py) over the driver's connection; and of the      *)
(* fixtures of framework/base_test.py.  Each component has its own         *)
(* specification (Spec, CipherSpec, TamperSpec, StoreSpec, ManagerSpec,    *)
(* LifecycleSpec) in which the variables of the components it does not     *)
(* use stay idle.                                                          *)
(*                                                                         *)
(* Representation of the Python values of the wrapper:                     *)
(*   - a str is a sequence of text fragments; an f-string is the           *)
(*     concatenation of its literal fragment and the formatted values,     *)
(*     "x in s" on strings is contiguous sub-sequence containment;         *)
(*   - Optional[T] is None (the empty option) or Some(v);                  *)
(*   - a row (tuple) is a sequence of cells, a result (list) a sequence    *)
(*     of rows;                                                            *)
(*   - an exception is a record of its class name and its str() message.   *)
(***************************************************************************)
EXTENDS Integers, Sequences, FiniteSets, TLC

VARIABLES
    db,        \* the behaviour of the executor the wrapper was constructed over
    call,      \* the last call of the wrapper: operation and arguments
    outcome,   \* how that call ended: value returned or exception raised
    log,       \* the log entries that call emitted, in order
    executed,  \* the (query, params) of the execute_query calls it made
    keys,      \* the key each cipher instance generated at construction
    enc,       \* the last _encrypt_data call: instance, inputs and output
    dec,       \* the last _decrypt_data call: instance, inputs and outcome
    users,     \* the rows of table vault_users
    records,   \* the rows of table vault_records
    user_seq,  \* the next value of the sequence behind vault_users.user_id
    record_seq, \* the next value of the sequence behind vault_records.record_id
    results,   \* what execute_query returned for the last statement
    raised,    \* the exception execute_query raised for it, "" if none
    db_type,   \* DatabaseManager.db_type
    connection, \* DatabaseManager.connection: None, or the driver's connection
    tables,    \* the vault tables that exist in the database
    phase      \* the position of the test class in its unittest lifecycle

wrapperVars == <<db, call, outcome, log, executed>>
cipherVars == <<keys, enc, dec>>
storeVars == <<users, records, user_seq, record_seq, results, raised>>
managerVars == <<db_type, connection>>
harnessVars == <<tables, phase>>
vars == <<wrapperVars, cipherVars, storeVars, managerVars, harnessVars>>

(***************************************************************************)
(* Bounds of the model.                                                    *)
(***************************************************************************)
MaxRows == 2

MaxWidth == 2

(***************************************************************************)
(* Python values.                                                          *)
(***************************************************************************)
None == <<>>

Some(v) == <<v>>

IsNone(o) == Len(o) = 0

\* str.__contains__: sub occurs in s as a contiguous run of fragments.
Contains(s, sub) ==
    \E i \in 0..(Len(s) - Len(sub)) : SubSeq(s, i + 1, i + Len(sub)) = sub

\* All sequences over S of length 0..n.
SeqsUpTo(S, n) == UNION { [1..k -> S] : k \in 0..n }

(***************************************************************************)
(* Inputs: query texts, query parameters, caller-supplied error messages,  *)
(* result rows, and the classes and messages of the exceptions the         *)
(* executor raises.                                                        *)
(***************************************************************************)
Queries == { <<"SELECT * FROM test">>, <<"UPDATE test SET val=1">> }

Params == { None, Some(<<"alice">>) }

ErrorMsgs ==
    { None,
      Some(<<>>),
      Some(<<"No data found">>),
      Some(<<"No data found for: ", "SELECT * FROM test">>) }

\* The cell in column i of the row with key k.
Cell(k, i) == "r" \o ToString(k) \o "c" \o ToString(i)

\* The rows of width w, with keys 1 and 2.
RowsOfWidth(w) == { [i \in 1..w |-> Cell(k, i)] : k \in {1, 2} }

\* The result sets: up to MaxRows rows of one width, of 0..MaxWidth columns.
ResultSets == UNION { SeqsUpTo(RowsOfWidth(w), MaxRows) : w \in 0..MaxWidth }

\* What execute_query returns: None (no result set) or a result set.
Results == { None } \cup { Some(rs) : rs \in ResultSets }

\* Python's exception hierarchy: the classes derived from Exception, and the
\* classes derived from BaseException only.
ExceptionClasses == { "Exception", "IntegrityError" }

BaseExceptionOnlyClasses == { "KeyboardInterrupt" }

ExcMsgs ==
    { <<>>,
      <<"violates foreign key constraint">>,
      <<"DB error occurred while executing query: ", "UPDATE test SET val=1">> }

NoExc == [type |-> "", msg |-> <<>>]

Exc(t, m) == [type |-> t, msg |-> m]

\* The behaviours of the executor's execute_query: it raises exc, or it
\* returns result (None: no result set; Some(rows): a result set).
Executors ==
    { [raises |-> TRUE, exc |-> Exc(t, m), result |-> None] :
        t \in ExceptionClasses \cup BaseExceptionOnlyClasses, m \in ExcMsgs }
    \cup { [raises |-> FALSE, exc |-> NoExc, result |-> r] : r \in Results }

\* The column indexes tried: every valid position of the widest row, and
\* invalid ones on both sides.
Columns == (0 - MaxWidth - 1)..(MaxWidth + 1)

(***************************************************************************)
(* Python semantics used by the wrapper.                                   *)
(***************************************************************************)
\* bool(result) is False: result is None or an empty list ("not result").
ResultIsFalsy(result) == IsNone(result) \/ Len(result[1]) = 0

\* bool(error_msg) is True: error_msg is a non-empty str.
MsgIsTruthy(error_msg) == ~IsNone(error_msg) /\ Len(error_msg[1]) > 0

\* isinstance(e, Exception), the test of "except Exception".
IsInstanceOfException(type) == type \in ExceptionClasses

\* row[column] is defined: -len(row) <= column < len(row).
IndexInRange(row, column) == 0 - Len(row) <= column /\ column < Len(row)

\* row[column], negative indexes counting from the end.
PyIndex(row, column) ==
    IF column >= 0 THEN row[column + 1] ELSE row[Len(row) + column + 1]

\* str(row): the cells between parentheses.
ReprRow(row) == <<"(">> \o row \o <<")">>

RECURSIVE ReprRows(_)
\* str(rows): the rows between brackets.
ReprRows(rows) ==
    IF Len(rows) = 0 THEN <<>> ELSE ReprRow(Head(rows)) \o ReprRows(Tail(rows))

ReprList(rows) == <<"[">> \o ReprRows(rows) \o <<"]">>

LogEntry(level, msg) == [level |-> level, msg |-> msg]

Returned(v, lg, ex) ==
    [kind |-> "return", value |-> Some(v), exc |-> NoExc, log |-> lg, executed |-> ex]

Raised(e, lg, ex) ==
    [kind |-> "raise", value |-> None, exc |-> e, log |-> lg, executed |-> ex]

(***************************************************************************)
(* The wrapper's operations.  db is the behaviour of self.db.execute_query *)
(* for the call; each operation yields how it ends (kind: return or        *)
(* raise), the value returned or the exception raised, the log entries it  *)
(* emitted in order, and the (query, params) of every execute_query call   *)
(* it made.                                                                *)
(***************************************************************************)
\* Variant: the caller's error_msg is ignored.
NotFoundMsg_default_only(query, error_msg) ==
    <<"No rows returned for query: ">> \o query

\* Variant: the default message leaves the query out.
NotFoundMsg_without_query(query, error_msg) ==
    IF MsgIsTruthy(error_msg) THEN error_msg[1] ELSE <<"No rows returned">>

\* error_msg or f"No rows returned for query: {query}"
NotFoundMsg(query, error_msg) ==
    IF MsgIsTruthy(error_msg)
    THEN error_msg[1]
    ELSE <<"No rows returned for query: ">> \o query

\* Variant: "if result is None:", so that an empty list reaches result[0].
fetch_one_or_raise_is_none(d, query, params, error_msg) ==
    LET ex == << <<query, params>> >>
    IN  IF d.raises
        THEN Raised(d.exc, <<>>, ex)
        ELSE IF IsNone(d.result)
        THEN Raised(Exc("ValueError", NotFoundMsg(query, error_msg)),
                    << LogEntry("ERROR", NotFoundMsg(query, error_msg)) >>,
                    ex)
        ELSE IF Len(d.result[1]) = 0
        THEN Raised(Exc("IndexError", <<"list index out of range">>), <<>>, ex)
        ELSE Returned(d.result[1][1],
                      << LogEntry("DEBUG",
                                  <<"Fetched one row: ">> \o ReprRow(d.result[1][1])) >>,
                      ex)

\* Variant: the last row, result[-1], is logged and returned.
fetch_one_or_raise_last_row(d, query, params, error_msg) ==
    LET ex == << <<query, params>> >>
    IN  IF d.raises
        THEN Raised(d.exc, <<>>, ex)
        ELSE IF ResultIsFalsy(d.result)
        THEN Raised(Exc("ValueError", NotFoundMsg(query, error_msg)),
                    << LogEntry("ERROR", NotFoundMsg(query, error_msg)) >>,
                    ex)
        ELSE Returned(d.result[1][Len(d.result[1])],
                      << LogEntry("DEBUG",
                                  <<"Fetched one row: ">>
                                  \o ReprRow(d.result[1][Len(d.result[1])])) >>,
                      ex)

\* Variant: the raise comes first, so that logger.error is never reached.
fetch_one_or_raise_raise_first(d, query, params, error_msg) ==
    LET ex == << <<query, params>> >>
    IN  IF d.raises
        THEN Raised(d.exc, <<>>, ex)
        ELSE IF ResultIsFalsy(d.result)
        THEN Raised(Exc("ValueError", NotFoundMsg(query, error_msg)), <<>>, ex)
        ELSE Returned(d.result[1][1],
                      << LogEntry("DEBUG",
                                  <<"Fetched one row: ">> \o ReprRow(d.result[1][1])) >>,
                      ex)

fetch_one_or_raise(d, query, params, error_msg) ==
    LET ex == << <<query, params>> >>
    IN  IF d.raises
        THEN Raised(d.exc, <<>>, ex)
        ELSE IF ResultIsFalsy(d.result)
        THEN Raised(Exc("ValueError", NotFoundMsg(query, error_msg)),
                    << LogEntry("ERROR", NotFoundMsg(query, error_msg)) >>,
                    ex)
        ELSE Returned(d.result[1][1],
                      << LogEntry("DEBUG",
                                  <<"Fetched one row: ">> \o ReprRow(d.result[1][1])) >>,
                      ex)

\* Variant: the column argument is ignored, row[0] is returned.
fetch_value_or_raise_first_column(d, query, params, column, error_msg) ==
    LET one == fetch_one_or_raise(d, query, params, error_msg)
    IN  IF one.kind = "raise"
        THEN one
        ELSE IF ~IndexInRange(one.value[1], 0)
        THEN Raised(Exc("IndexError", <<"tuple index out of range">>),
                    one.log, one.executed)
        ELSE Returned(PyIndex(one.value[1], 0),
                      one.log \o
                      << LogEntry("DEBUG",
                                  <<"Fetched value from column ", ToString(column), ": ",
                                    PyIndex(one.value[1], 0)>>) >>,
                      one.executed)

\* Variant: an IndexError of row[column] is caught and None is returned.
fetch_value_or_raise_masked(d, query, params, column, error_msg) ==
    LET one == fetch_one_or_raise(d, query, params, error_msg)
    IN  IF one.kind = "raise"
        THEN one
        ELSE IF ~IndexInRange(one.value[1], column)
        THEN [kind |-> "return", value |-> None, exc |-> NoExc,
              log |-> one.log, executed |-> one.executed]
        ELSE Returned(PyIndex(one.value[1], column),
                      one.log \o
                      << LogEntry("DEBUG",
                                  <<"Fetched value from column ", ToString(column), ": ",
                                    PyIndex(one.value[1], column)>>) >>,
                      one.executed)

\* Variant: the query is executed a second time to read the column.
fetch_value_or_raise_requery(d, query, params, column, error_msg) ==
    LET one == fetch_one_or_raise(d, query, params, error_msg)
        again == fetch_one_or_raise(d, query, params, error_msg)
    IN  IF one.kind = "raise"
        THEN one
        ELSE IF ~IndexInRange(again.value[1], column)
        THEN Raised(Exc("IndexError", <<"tuple index out of range">>),
                    one.log \o again.log, one.executed \o again.executed)
        ELSE Returned(PyIndex(again.value[1], column),
                      one.log \o again.log \o
                      << LogEntry("DEBUG",
                                  <<"Fetched value from column ", ToString(column), ": ",
                                    PyIndex(again.value[1], column)>>) >>,
                      one.executed \o again.executed)

fetch_value_or_raise(d, query, params, column, error_msg) ==
    LET one == fetch_one_or_raise(d, query, params, error_msg)
    IN  IF one.kind = "raise"
        THEN one
        ELSE IF ~IndexInRange(one.value[1], column)
        THEN Raised(Exc("IndexError", <<"tuple index out of range">>),
                    one.log, one.executed)
        ELSE Returned(PyIndex(one.value[1], column),
                      one.log \o
                      << LogEntry("DEBUG",
                                  <<"Fetched value from column ", ToString(column), ": ",
                                    PyIndex(one.value[1], column)>>) >>,
                      one.executed)

\* Variant: no rows is an error, as in fetch_one_or_raise.
fetch_all_safe_strict(d, query, params) ==
    LET ex == << <<query, params>> >>
    IN  IF d.raises
        THEN Raised(d.exc, <<>>, ex)
        ELSE IF ResultIsFalsy(d.result)
        THEN Raised(Exc("ValueError", <<"No rows returned for query: ">> \o query),
                    <<>>, ex)
        ELSE Returned(d.result[1],
                      << LogEntry("DEBUG",
                                  <<"Fetched all rows: ">> \o ReprList(d.result[1])) >>,
                      ex)

\* Variant: "return result", so that the executor's None is handed on.
fetch_all_safe_raw(d, query, params) ==
    LET ex == << <<query, params>> >>
    IN  IF d.raises
        THEN Raised(d.exc, <<>>, ex)
        ELSE IF IsNone(d.result)
        THEN [kind |-> "return", value |-> None, exc |-> NoExc,
              log |-> << LogEntry("DEBUG", <<"Fetched all rows: ", "None">>) >>,
              executed |-> ex]
        ELSE Returned(d.result[1],
                      << LogEntry("DEBUG",
                                  <<"Fetched all rows: ">> \o ReprList(d.result[1])) >>,
                      ex)

\* Variant: a try/except around the call, as in safe_execute; a failure of
\* the executor yields the empty list.
fetch_all_safe_absorbing(d, query, params) ==
    LET ex == << <<query, params>> >>
        rows == IF ResultIsFalsy(d.result) THEN <<>> ELSE d.result[1]
    IN  IF d.raises /\ IsInstanceOfException(d.exc.type)
        THEN Returned(<<>>, <<>>, ex)
        ELSE IF d.raises
        THEN Raised(d.exc, <<>>, ex)
        ELSE Returned(rows,
                      << LogEntry("DEBUG", <<"Fetched all rows: ">> \o ReprList(rows)) >>,
                      ex)

fetch_all_safe(d, query, params) ==
    LET ex == << <<query, params>> >>
        rows == IF ResultIsFalsy(d.result) THEN <<>> ELSE d.result[1]
    IN  IF d.raises
        THEN Raised(d.exc, <<>>, ex)
        ELSE Returned(rows,
                      << LogEntry("DEBUG", <<"Fetched all rows: ">> \o ReprList(rows)) >>,
                      ex)

\* Variant: no try/except, every exception of the executor propagates.
safe_execute_reraise(d, query, params) ==
    LET ex == << <<query, params>> >>
    IN  IF ~d.raises
        THEN Returned(TRUE,
                      << LogEntry("INFO", <<"Successfully executed query: ">> \o query) >>,
                      ex)
        ELSE Raised(d.exc, <<>>, ex)

\* Variant: the error entry formats the query, not the exception.
safe_execute_log_query(d, query, params) ==
    LET ex == << <<query, params>> >>
    IN  IF ~d.raises
        THEN Returned(TRUE,
                      << LogEntry("INFO", <<"Successfully executed query: ">> \o query) >>,
                      ex)
        ELSE IF IsInstanceOfException(d.exc.type)
        THEN Returned(FALSE,
                      << LogEntry("ERROR",
                                  <<"[DBUtils] Error executing query: ">> \o query) >>,
                      ex)
        ELSE Raised(d.exc, <<>>, ex)

safe_execute(d, query, params) ==
    LET ex == << <<query, params>> >>
    IN  IF ~d.raises
        THEN Returned(TRUE,
                      << LogEntry("INFO", <<"Successfully executed query: ">> \o query) >>,
                      ex)
        ELSE IF IsInstanceOfException(d.exc.type)
        THEN Returned(FALSE,
                      << LogEntry("ERROR",
                                  <<"[DBUtils] Error executing query: ">> \o d.exc.msg) >>,
                      ex)
        ELSE Raised(d.exc, <<>>, ex)

(***************************************************************************)
(* The state machine: a wrapper is constructed over an executor, and its   *)
(* operations are called, in any order and any number of times, with       *)
(* arguments of the caller's choice.  The wrapper keeps no state between   *)
(* calls; the state records the last call.                                 *)
(***************************************************************************)
\* No call has been made yet.
NoCall == [op |-> "", query |-> <<>>, params |-> None, column |-> 0, error_msg |-> None]

NoOutcome == [kind |-> "", value |-> None, exc |-> NoExc]

\* No _encrypt_data call and no _decrypt_data call has been made yet.
NoEnc == [inst |-> "", plaintext |-> <<>>, nonce |-> <<>>,
          encrypted_hex |-> <<>>, nonce_hex |-> <<>>]

NoDec == [inst |-> "", encrypted_hex |-> <<>>, nonce_hex |-> <<>>,
          kind |-> "", value |-> None, exc |-> ""]

\* No cipher instance is constructed.
CipherIdle ==
    /\ keys = <<>>
    /\ enc = NoEnc
    /\ dec = NoDec

\* The vault tables are empty and no statement has been executed.
StoreIdle ==
    /\ users = {}
    /\ records = {}
    /\ user_seq = 1
    /\ record_seq = 1
    /\ results = None
    /\ raised = ""

\* No DatabaseManager has been constructed and no test class is running.
ManagerIdle ==
    /\ db_type = ""
    /\ connection = None
    /\ tables = {}
    /\ phase = ""

Init ==
    /\ db \in Executors
    /\ call = NoCall
    /\ outcome = NoOutcome
    /\ log = <<>>
    /\ executed = <<>>
    /\ CipherIdle
    /\ StoreIdle
    /\ ManagerIdle

\* The record of a call: the operation and its arguments (column and
\* error_msg at their defaults, 0 and None, where the operation has none).
Call(op, query, params, column, error_msg) ==
    [op |-> op, query |-> query, params |-> params,
     column |-> column, error_msg |-> error_msg]

\* How the call that yielded r ended.
Outcome(r) == [kind |-> r.kind, value |-> r.value, exc |-> r.exc]

FetchOneOrRaise ==
    \E query \in Queries, params \in Params, error_msg \in ErrorMsgs :
        LET r == fetch_one_or_raise(db, query, params, error_msg)
        IN  /\ call' = Call("fetch_one_or_raise", query, params, 0, error_msg)
            /\ outcome' = Outcome(r)
            /\ log' = r.log
            /\ executed' = r.executed
            /\ UNCHANGED <<db, cipherVars, storeVars, managerVars, harnessVars>>

FetchValueOrRaise ==
    \E query \in Queries, params \in Params, column \in Columns,
       error_msg \in ErrorMsgs :
        LET r == fetch_value_or_raise(db, query, params, column, error_msg)
        IN  /\ call' = Call("fetch_value_or_raise", query, params, column, error_msg)
            /\ outcome' = Outcome(r)
            /\ log' = r.log
            /\ executed' = r.executed
            /\ UNCHANGED <<db, cipherVars, storeVars, managerVars, harnessVars>>

FetchAllSafe ==
    \E query \in Queries, params \in Params :
        LET r == fetch_all_safe(db, query, params)
        IN  /\ call' = Call("fetch_all_safe", query, params, 0, None)
            /\ outcome' = Outcome(r)
            /\ log' = r.log
            /\ executed' = r.executed
            /\ UNCHANGED <<db, cipherVars, storeVars, managerVars, harnessVars>>

SafeExecute ==
    \E query \in Queries, params \in Params :
        LET r == safe_execute(db, query, params)
        IN  /\ call' = Call("safe_execute", query, params, 0, None)
            /\ outcome' = Outcome(r)
            /\ log' = r.log
            /\ executed' = r.executed
            /\ UNCHANGED <<db, cipherVars, storeVars, managerVars, harnessVars>>

Next == FetchOneOrRaise \/ FetchValueOrRaise \/ FetchAllSafe \/ SafeExecute

Spec == Init /\ [][Next]_vars

(***************************************************************************)
(* Properties of the wrapper.                                              *)
(***************************************************************************)
\* The call of operation op has ended.
Done(op) == call.op = op

\* The executor returned without raising and its result holds no row: no
\* result set (None) or an empty result set ([]).
ZeroRows(d) == ~d.raises /\ (d.result = None \/ d.result = Some(<<>>))

\* The executor returned at least one row.
HasRows(d) == ~d.raises /\ ~IsNone(d.result) /\ Len(d.result[1]) > 0

\* The caller supplied an error message other than the empty string.
Supplied(error_msg) == error_msg # None /\ error_msg # Some(<<>>)

\* The positions of the error-level entries of a log.
ErrorEntries(lg) == { i \in 1..Len(lg) : lg[i].level = "ERROR" }

\* safe_execute returned v.
SafeExecuteReturned(v) == outcome.kind = "return" /\ outcome.value = Some(v)

\* C1 as stated: safe_execute returns True iff execute_query does not raise,
\* and returns False, letting nothing escape, whenever execute_query raises
\* an exception of any type whatsoever.
C1_AnyExceptionAbsorbed ==
    Done("safe_execute") =>
        /\ SafeExecuteReturned(TRUE) <=> ~db.raises
        /\ db.raises => SafeExecuteReturned(FALSE)

\* C1 amended: safe_execute returns True iff execute_query does not raise;
\* it returns False, letting nothing escape, whenever execute_query raises an
\* exception derived from Exception; an exception derived from BaseException
\* only (KeyboardInterrupt) is not caught and propagates unchanged.
C1_ExceptionSubclassesAbsorbed ==
    Done("safe_execute") =>
        /\ SafeExecuteReturned(TRUE) <=> ~db.raises
        /\ (db.raises /\ db.exc.type \in {"Exception", "IntegrityError"})
              => SafeExecuteReturned(FALSE)
        /\ (db.raises /\ db.exc.type = "KeyboardInterrupt")
              => (outcome.kind = "raise" /\ outcome.exc = db.exc)

C1_Witness ==
    /\ Done("safe_execute")
    /\ db.raises
    /\ db.exc.type = "IntegrityError"
    /\ SafeExecuteReturned(FALSE)

\* C2: when the query yields zero rows, fetch_one_or_raise raises ValueError
\* (NotFound) and returns no value.
C2_FetchOneRaisesOnZeroRows ==
    (Done("fetch_one_or_raise") /\ ZeroRows(db)) =>
        /\ outcome.kind = "raise"
        /\ outcome.exc.type = "ValueError"
        /\ outcome.value = None

C2_Witness ==
    /\ Done("fetch_one_or_raise")
    /\ ~db.raises
    /\ db.result = Some(<<>>)
    /\ outcome.kind = "raise"
    /\ outcome.exc.type = "ValueError"

\* C3: when the query yields zero rows, fetch_all_safe returns an empty
\* sequence and raises nothing.
C3_FetchAllEmptyOnZeroRows ==
    (Done("fetch_all_safe") /\ ZeroRows(db)) =>
        /\ outcome.kind = "return"
        /\ outcome.value = Some(<<>>)
        /\ outcome.exc = NoExc

C3_Witness ==
    /\ Done("fetch_all_safe")
    /\ ~db.raises
    /\ db.result = Some(<<>>)
    /\ outcome.kind = "return"
    /\ outcome.value = Some(<<>>)

\* The executor that returns the other of the two zero-row results.
OtherZeroRows(d) ==
    [raises |-> FALSE, exc |-> NoExc,
     result |-> IF d.result = None THEN Some(<<>>) ELSE None]

\* C4: the executor's None and its empty list are treated identically:
\* fetch_all_safe returns an empty sequence for both, fetch_one_or_raise
\* fails with ValueError (NotFound) for both, and what the call returns,
\* raises and logs is what it would with the other of the two results.
C4_AbsentAndEmptyAlike ==
    (call.op # "" /\ ZeroRows(db)) =>
        /\ call.op = "fetch_all_safe" =>
              LET r == fetch_all_safe(OtherZeroRows(db), call.query, call.params)
              IN  /\ outcome.kind = "return"
                  /\ outcome.value = Some(<<>>)
                  /\ outcome = Outcome(r)
                  /\ log = r.log
        /\ call.op = "fetch_one_or_raise" =>
              LET r == fetch_one_or_raise(OtherZeroRows(db), call.query,
                                          call.params, call.error_msg)
              IN  /\ outcome.kind = "raise"
                  /\ outcome.exc.type = "ValueError"
                  /\ outcome = Outcome(r)
                  /\ log = r.log

C4_Witness ==
    /\ Done("fetch_all_safe")
    /\ ~db.raises
    /\ db.result = None
    /\ outcome.kind = "return"
    /\ outcome.value = Some(<<>>)

\* C5: when the executor returns a non-empty sequence of rows,
\* fetch_one_or_raise returns its first row unmodified and fetch_all_safe
\* returns the whole sequence, the same rows in the same order.
C5_RowsReturnedUnmodified ==
    (call.op # "" /\ HasRows(db)) =>
        /\ call.op = "fetch_one_or_raise" =>
              (outcome.kind = "return" /\ outcome.value = Some(db.result[1][1]))
        /\ call.op = "fetch_all_safe" =>
              (outcome.kind = "return" /\ outcome.value = db.result)

C5_Witness ==
    /\ Done("fetch_one_or_raise")
    /\ ~db.raises
    /\ db.result = Some(<< <<"r1c1", "r1c2">>, <<"r2c1", "r2c2">> >>)
    /\ outcome.kind = "return"
    /\ outcome.value = Some(<<"r1c1", "r1c2">>)

\* C6: when the first row has at least column+1 columns,
\* fetch_value_or_raise(query, params, column) ends as
\* fetch_one_or_raise(query, params)[column] does (for column >= 0 it returns
\* that cell); when the query yields no rows it raises the ValueError, with
\* the same message, that fetch_one_or_raise raises.
C6_FetchValueIsColumnOfFetchOne ==
    (Done("fetch_value_or_raise") /\ ~db.raises) =>
        LET one == fetch_one_or_raise(db, call.query, call.params, call.error_msg)
        IN  /\ (one.kind = "return" /\ Len(one.value[1]) >= call.column + 1) =>
                  IF call.column >= 0
                  THEN /\ outcome.kind = "return"
                       /\ outcome.value = Some(one.value[1][call.column + 1])
                  ELSE IF 0 - Len(one.value[1]) <= call.column
                  THEN /\ outcome.kind = "return"
                       /\ outcome.value =
                             Some(one.value[1][Len(one.value[1]) + call.column + 1])
                  ELSE /\ outcome.kind = "raise"
                       /\ outcome.exc.type = "IndexError"
            /\ one.kind = "raise" =>
                  /\ outcome.kind = "raise"
                  /\ outcome.exc.type = "ValueError"
                  /\ outcome.exc = one.exc

C6_Witness ==
    /\ Done("fetch_value_or_raise")
    /\ ~db.raises
    /\ db.result = Some(<< <<"r1c1", "r1c2">> >>)
    /\ call.column = 1
    /\ outcome.kind = "return"
    /\ outcome.value = Some("r1c2")

\* C7 as stated: for a returned row of width w and a column index that is
\* not one of 0..w-1, fetch_value_or_raise raises IndexError and returns no
\* value.
C7_NonPositionAlwaysFails ==
    (Done("fetch_value_or_raise") /\ HasRows(db)
        /\ call.column \notin 0..(Len(db.result[1][1]) - 1)) =>
        /\ outcome.kind = "raise"
        /\ outcome.exc.type = "IndexError"
        /\ outcome.value = None

\* C7 amended: for a returned row of width w, fetch_value_or_raise raises
\* IndexError, which reaches the caller, and returns no value whenever the
\* column index is outside -w..w-1; an index in -w..-1 counts from the end
\* of the row and the cell at position w+column is returned.
C7_OutOfRangeFails ==
    (Done("fetch_value_or_raise") /\ HasRows(db)) =>
        LET row == db.result[1][1]
            w == Len(row)
        IN  /\ (call.column >= w \/ call.column < 0 - w) =>
                  /\ outcome.kind = "raise"
                  /\ outcome.exc.type = "IndexError"
                  /\ outcome.value = None
            /\ (call.column < 0 /\ call.column >= 0 - w) =>
                  /\ outcome.kind = "return"
                  /\ outcome.value = Some(row[w + call.column + 1])

C7_Witness ==
    /\ Done("fetch_value_or_raise")
    /\ ~db.raises
    /\ db.result = Some(<< <<"r1c1", "r1c2">> >>)
    /\ call.column = 2
    /\ outcome.kind = "raise"
    /\ outcome.exc.type = "IndexError"

\* fetch_one_or_raise failed with the NotFound condition.
FetchOneNotFound ==
    Done("fetch_one_or_raise") /\ ~db.raises /\ outcome.kind = "raise"

\* C8 as stated: when fetch_one_or_raise fails, the message of the ValueError
\* is the caller's error message if one was supplied, otherwise a default
\* message containing the query text, and that message is what is logged.
C8_SuppliedMessageAlwaysUsed ==
    FetchOneNotFound =>
        /\ call.error_msg # None => outcome.exc.msg = call.error_msg[1]
        /\ call.error_msg = None =>
              /\ outcome.exc.msg = <<"No rows returned for query: ">> \o call.query
              /\ Contains(outcome.exc.msg, call.query)
        /\ log = << LogEntry("ERROR", outcome.exc.msg) >>

\* C8 amended: when fetch_one_or_raise fails, the message of the ValueError
\* is the caller's error message if a non-empty one was supplied, otherwise
\* (none, or the empty string) the default message containing the query
\* text, and that message is what is logged.
C8_NonEmptyMessageUsed ==
    FetchOneNotFound =>
        /\ Supplied(call.error_msg) => outcome.exc.msg = call.error_msg[1]
        /\ ~Supplied(call.error_msg) =>
              /\ outcome.exc.msg = <<"No rows returned for query: ">> \o call.query
              /\ Contains(outcome.exc.msg, call.query)
        /\ log = << LogEntry("ERROR", outcome.exc.msg) >>

C8_Witness ==
    /\ FetchOneNotFound
    /\ call.error_msg = Some(<<"No data found">>)
    /\ outcome.exc = Exc("ValueError", <<"No data found">>)
    /\ log = << LogEntry("ERROR", <<"No data found">>) >>

\* A single-row or single-value fetch failed with the NotFound condition.
FetchNotFound ==
    /\ call.op \in {"fetch_one_or_raise", "fetch_value_or_raise"}
    /\ ~db.raises
    /\ outcome.kind = "raise"
    /\ outcome.exc.type = "ValueError"

\* C9 as stated: every ValueError (NotFound) raised by fetch_one_or_raise or
\* fetch_value_or_raise carries the offending query and a human-readable
\* message, whatever the query and the optional error message.
C9_NotFoundAlwaysCarriesQuery ==
    FetchNotFound =>
        /\ Len(outcome.exc.msg) > 0
        /\ Contains(outcome.exc.msg, call.query)

\* C9 amended: every ValueError (NotFound) raised by fetch_one_or_raise or
\* fetch_value_or_raise carries a non-empty message; the message contains
\* the offending query when the caller supplied no non-empty error message,
\* and is exactly the caller's message, with the query only where the caller
\* wrote it, when a non-empty one was supplied.
C9_NotFoundCarriesQueryByDefault ==
    FetchNotFound =>
        /\ Len(outcome.exc.msg) > 0
        /\ ~Supplied(call.error_msg) => Contains(outcome.exc.msg, call.query)
        /\ Supplied(call.error_msg) =>
              (Contains(outcome.exc.msg, call.query)
                  <=> Contains(call.error_msg[1], call.query))

C9_Witness ==
    /\ FetchNotFound
    /\ call.op = "fetch_value_or_raise"
    /\ call.error_msg = None
    /\ call.query = <<"SELECT * FROM test">>
    /\ outcome.exc.msg = <<"No rows returned for query: ", "SELECT * FROM test">>

\* C10 as stated: when the executor raises during safe_execute, exactly one
\* error-level entry is logged and it includes the query text and the
\* exception's message; on success an info-level entry containing the query
\* is logged instead.
C10_ErrorEntryHasQueryAndMessage ==
    Done("safe_execute") =>
        /\ db.raises =>
              /\ Cardinality(ErrorEntries(log)) = 1
              /\ \A i \in ErrorEntries(log) :
                    /\ Contains(log[i].msg, call.query)
                    /\ Contains(log[i].msg, db.exc.msg)
        /\ ~db.raises =>
              /\ Len(log) = 1
              /\ log[1].level = "INFO"
              /\ Contains(log[1].msg, call.query)

\* C10 amended: when the executor raises an exception derived from Exception
\* during safe_execute, exactly one entry is logged, at error level, and it
\* includes the exception's message; the query text is in it only if the
\* exception's message contains it.  On success a single info-level entry
\* containing the query is logged instead.  An exception derived from
\* BaseException only propagates and nothing is logged.
C10_ErrorEntryHasMessage ==
    Done("safe_execute") =>
        /\ (db.raises /\ db.exc.type \in {"Exception", "IntegrityError"}) =>
              /\ Len(log) = 1
              /\ log[1].level = "ERROR"
              /\ Contains(log[1].msg, db.exc.msg)
              /\ Contains(log[1].msg, call.query)
                    <=> Contains(db.exc.msg, call.query)
        /\ (db.raises /\ db.exc.type = "KeyboardInterrupt") => log = <<>>
        /\ ~db.raises =>
              /\ Len(log) = 1
              /\ log[1].level = "INFO"
              /\ Contains(log[1].msg, call.query)

C10_Witness ==
    /\ Done("safe_execute")
    /\ db.raises
    /\ db.exc = Exc("Exception", <<"violates foreign key constraint">>)
    /\ outcome.value = Some(FALSE)
    /\ log = << LogEntry("ERROR", <<"[DBUtils] Error executing query: ",
                                    "violates foreign key constraint">>) >>

\* C11 as stated: every call of fetch_one_or_raise emits a diagnostic log
\* entry: a debug-level entry recording the returned row when it returns, an
\* error-level entry, already emitted when the ValueError reaches the caller,
\* when it fails.
C11_EveryCallLogs ==
    Done("fetch_one_or_raise") =>
        /\ Len(log) >= 1
        /\ outcome.kind = "return" =>
              log = << LogEntry("DEBUG",
                                <<"Fetched one row: ">> \o ReprRow(outcome.value[1])) >>
        /\ outcome.kind = "raise" => log[1].level = "ERROR"

\* C11 amended: every call of fetch_one_or_raise in which execute_query
\* returns emits exactly one diagnostic log entry: a debug-level entry
\* recording the returned row when it returns, an error-level entry with the
\* ValueError's message, already emitted when the ValueError reaches the
\* caller, when it fails.  When execute_query raises, nothing is logged.
C11_CallLogsUnlessExecutorRaises ==
    Done("fetch_one_or_raise") =>
        /\ (~db.raises /\ outcome.kind = "return") =>
              log = << LogEntry("DEBUG",
                                <<"Fetched one row: ">> \o ReprRow(outcome.value[1])) >>
        /\ (~db.raises /\ outcome.kind = "raise") =>
              /\ outcome.exc.type = "ValueError"
              /\ log = << LogEntry("ERROR", outcome.exc.msg) >>
        /\ db.raises => (log = <<>> /\ outcome.kind = "raise")

C11_Witness ==
    /\ Done("fetch_one_or_raise")
    /\ ~db.raises
    /\ db.result = None
    /\ outcome.kind = "raise"
    /\ outcome.exc.type = "ValueError"
    /\ Len(log) = 1
    /\ log[1].level = "ERROR"

(***************************************************************************)
(* The cipher helper of tests/sql/test_vault.py (TestVaultOperations).     *)
(*                                                                         *)
(* Representation of its Python values:                                    *)
(*   - a str is the sequence of its code points (so that a plaintext and   *)
(*     a hex string can be compared, as the tests compare them);           *)
(*   - bytes are a sequence of integers in 0..255;                         *)
(*   - a raised exception is recorded by its class name.                   *)
(***************************************************************************)
MaxPlainLen == 1

KeyBits == 256

NonceLen == 12

\* The length of the authentication tag AESGCM.encrypt appends.
TagLen == 16

\* The code points of the plaintexts: "a" (one byte in UTF-8, and a
\* hexadecimal digit), "e" with an acute accent (two bytes) and the euro
\* sign (three bytes).
PlainChars == {97, 233, 8364}

Plaintexts == SeqsUpTo(PlainChars, MaxPlainLen)

\* bytes.hex(): two lowercase hexadecimal digits per byte, high nibble first.
HexDigit(n) == IF n < 10 THEN 48 + n ELSE 87 + n

RECURSIVE bytes_hex(_)
bytes_hex(b) ==
    IF b = <<>> THEN <<>>
    ELSE << HexDigit(Head(b) \div 16), HexDigit(Head(b) % 16) >> \o bytes_hex(Tail(b))

\* bytes.fromhex(): two hexadecimal digits of either case per byte; any
\* other string is a ValueError (ok = FALSE).  The strings passed here hold
\* no white space, which fromhex would skip.
IsHexDigit(c) == c \in 48..57 \/ c \in 97..102 \/ c \in 65..70

HexValue(c) ==
    IF c \in 48..57 THEN c - 48 ELSE IF c \in 97..102 THEN c - 87 ELSE c - 55

bytes_fromhex(h) ==
    IF Len(h) % 2 = 0 /\ \A i \in 1..Len(h) : IsHexDigit(h[i])
    THEN [ok |-> TRUE,
          bytes |-> [ i \in 1..(Len(h) \div 2) |->
                        16 * HexValue(h[2 * i - 1]) + HexValue(h[2 * i]) ]]
    ELSE [ok |-> FALSE, bytes |-> <<>>]

\* str.encode(): UTF-8, one to four bytes per code point.
Utf8(cp) ==
    IF cp < 128 THEN << cp >>
    ELSE IF cp < 2048 THEN << 192 + (cp \div 64), 128 + (cp % 64) >>
    ELSE IF cp < 65536
         THEN << 224 + (cp \div 4096), 128 + ((cp \div 64) % 64), 128 + (cp % 64) >>
    ELSE << 240 + (cp \div 262144), 128 + ((cp \div 4096) % 64),
            128 + ((cp \div 64) % 64), 128 + (cp % 64) >>

RECURSIVE str_encode(_)
str_encode(s) == IF s = <<>> THEN <<>> ELSE Utf8(Head(s)) \o str_encode(Tail(s))

\* bytes.decode(): strict UTF-8; an invalid lead or continuation byte, a
\* truncated, overlong or surrogate sequence is a UnicodeDecodeError
\* (ok = FALSE).
Utf8Width(lead) ==
    IF lead < 128 THEN 1
    ELSE IF lead \in 194..223 THEN 2
    ELSE IF lead \in 224..239 THEN 3
    ELSE IF lead \in 240..244 THEN 4
    ELSE 0

Utf8CodePoint(b, n) ==
    IF n = 1 THEN b[1]
    ELSE IF n = 2 THEN (b[1] - 192) * 64 + (b[2] - 128)
    ELSE IF n = 3 THEN (b[1] - 224) * 4096 + (b[2] - 128) * 64 + (b[3] - 128)
    ELSE (b[1] - 240) * 262144 + (b[2] - 128) * 4096
            + (b[3] - 128) * 64 + (b[4] - 128)

Utf8Valid(b, n) ==
    /\ n > 0
    /\ Len(b) >= n
    /\ \A j \in 2..n : b[j] \in 128..191
    /\ (n = 3) => /\ Utf8CodePoint(b, n) >= 2048
                  /\ Utf8CodePoint(b, n) \notin 55296..57343
    /\ (n = 4) => Utf8CodePoint(b, n) \in 65536..1114111

RECURSIVE bytes_decode(_)
bytes_decode(b) ==
    IF b = <<>> THEN [ok |-> TRUE, str |-> <<>>]
    ELSE LET n == Utf8Width(b[1])
         IN  IF ~Utf8Valid(b, n) THEN [ok |-> FALSE, str |-> <<>>]
             ELSE LET rest == bytes_decode(SubSeq(b, n + 1, Len(b)))
                  IN  IF rest.ok
                      THEN [ok |-> TRUE, str |-> << Utf8CodePoint(b, n) >> \o rest.str]
                      ELSE [ok |-> FALSE, str |-> <<>>]

\* AESGCM.generate_key(bit_length=256): a key is KeyBits / 8 random bytes.
KeyLen == KeyBits \div 8

KeySeeds == {5, 11}

Keys == { [ i \in 1..KeyLen |-> (k * i) % 256 ] : k \in KeySeeds }

\* os.urandom(12): any NonceLen bytes.
NonceSeeds == {0, 200}

Nonces == { [ i \in 1..NonceLen |-> (n + i) % 256 ] : n \in NonceSeeds }

Instances == {"A", "B"}

(***************************************************************************)
(* The authenticated-encryption primitive (AESGCM of the cryptography      *)
(* library), as an ideal AEAD with no associated data: encrypt masks the   *)
(* data with a keystream of the key and the nonce and appends a TagLen     *)
(* byte tag of the key, the nonce and the masked data; decrypt recomputes  *)
(* the tag and fails with InvalidTag unless it is the one received.  The   *)
(* tag separates the keys and nonces of the model and any two masked data  *)
(* one bit or one byte apart.                                              *)
(***************************************************************************)
Keystream(key, nonce, i) ==
    (key[((i - 1) % Len(key)) + 1] + 3 * nonce[((i - 1) % Len(nonce)) + 1] + 7 * i) % 256

Mask(key, nonce, data) ==
    [ i \in 1..Len(data) |-> (data[i] + Keystream(key, nonce, i)) % 256 ]

Unmask(key, nonce, masked) ==
    [ i \in 1..Len(masked) |-> (masked[i] + 256 - Keystream(key, nonce, i)) % 256 ]

RECURSIVE Digest(_, _)
Digest(masked, i) ==
    IF i > Len(masked) THEN Len(masked)
    ELSE ((2 * i + 1) * masked[i] + Digest(masked, i + 1)) % 256

Tag(key, nonce, masked) ==
    LET digest == Digest(masked, 1)
    IN  [ j \in 1..TagLen |->
            (key[((j - 1) % Len(key)) + 1]
                + 5 * key[Len(key) - ((j - 1) % Len(key))]
                + 3 * nonce[((j - 1) % Len(nonce)) + 1] + digest + j) % 256 ]

AESGCM_encrypt(key, nonce, data) ==
    LET masked == Mask(key, nonce, data)
    IN  masked \o Tag(key, nonce, masked)

AESGCM_decrypt(key, nonce, ciphertext) ==
    IF Len(ciphertext) < TagLen THEN [ok |-> FALSE, data |-> <<>>]
    ELSE LET n == Len(ciphertext) - TagLen
             masked == SubSeq(ciphertext, 1, n)
         IN  IF SubSeq(ciphertext, n + 1, Len(ciphertext)) = Tag(key, nonce, masked)
             THEN [ok |-> TRUE, data |-> Unmask(key, nonce, masked)]
             ELSE [ok |-> FALSE, data |-> <<>>]

(***************************************************************************)
(* The operations of a cipher instance.  key is the key of self.aesgcm;    *)
(* nonce is what the call's os.urandom(12) returns.                        *)
(***************************************************************************)
CipherReturned(v) == [kind |-> "return", value |-> v, exc |-> ""]

CipherRaised(e) == [kind |-> "raise", value |-> None, exc |-> e]

\* Variant: the plaintext is encoded as ASCII, other characters dropped.
encrypt_data_ascii(key, nonce, plaintext) ==
    LET ciphertext ==
            AESGCM_encrypt(key, nonce, SelectSeq(plaintext, LAMBDA cp : cp < 128))
    IN  << bytes_hex(ciphertext), bytes_hex(nonce) >>

\* Variant: the nonce is cut to eight bytes.
encrypt_data_short_nonce(key, nonce, plaintext) ==
    LET short == SubSeq(nonce, 1, 8)
        ciphertext == AESGCM_encrypt(key, short, str_encode(plaintext))
    IN  << bytes_hex(ciphertext), bytes_hex(short) >>

\* Variant: the plaintext is returned in place of the hex ciphertext.
encrypt_data_plain(key, nonce, plaintext) ==
    << plaintext, bytes_hex(nonce) >>

\* _encrypt_data: the hex of the ciphertext with its tag, and the hex of
\* the nonce drawn.
encrypt_data(key, nonce, plaintext) ==
    LET ciphertext == AESGCM_encrypt(key, nonce, str_encode(plaintext))
    IN  << bytes_hex(ciphertext), bytes_hex(nonce) >>

\* Variant: the tag is dropped without being verified.
decrypt_data_unauthenticated(key, encrypted_hex, nonce_hex) ==
    LET ciphertext == bytes_fromhex(encrypted_hex)
        nonce == bytes_fromhex(nonce_hex)
    IN  IF ~ciphertext.ok \/ ~nonce.ok \/ nonce.bytes = <<>>
        THEN CipherRaised("ValueError")
        ELSE LET n == IF Len(ciphertext.bytes) < TagLen THEN 0
                      ELSE Len(ciphertext.bytes) - TagLen
                 plaintext == bytes_decode(
                     Unmask(key, nonce.bytes, SubSeq(ciphertext.bytes, 1, n)))
             IN  IF plaintext.ok THEN CipherReturned(Some(plaintext.str))
                 ELSE CipherRaised("UnicodeDecodeError")

\* Variant: a failed verification is swallowed and "" returned.
decrypt_data_swallow(key, encrypted_hex, nonce_hex) ==
    LET ciphertext == bytes_fromhex(encrypted_hex)
        nonce == bytes_fromhex(nonce_hex)
    IN  IF ~ciphertext.ok \/ ~nonce.ok THEN CipherRaised("ValueError")
        ELSE LET plaintext == AESGCM_decrypt(key, nonce.bytes, ciphertext.bytes)
             IN  IF ~plaintext.ok THEN CipherReturned(Some(<<>>))
                 ELSE IF bytes_decode(plaintext.data).ok
                      THEN CipherReturned(Some(bytes_decode(plaintext.data).str))
                      ELSE CipherRaised("UnicodeDecodeError")

\* Variant: any failure is swallowed and None returned.
decrypt_data_return_none(key, encrypted_hex, nonce_hex) ==
    LET ciphertext == bytes_fromhex(encrypted_hex)
        nonce == bytes_fromhex(nonce_hex)
    IN  IF ~ciphertext.ok \/ ~nonce.ok THEN CipherReturned(None)
        ELSE LET plaintext == AESGCM_decrypt(key, nonce.bytes, ciphertext.bytes)
             IN  IF ~plaintext.ok THEN CipherReturned(None)
                 ELSE IF bytes_decode(plaintext.data).ok
                      THEN CipherReturned(Some(bytes_decode(plaintext.data).str))
                      ELSE CipherReturned(None)

\* _decrypt_data: both arguments are decoded from hex (ValueError), the
\* ciphertext is verified and decrypted (InvalidTag) and the plaintext
\* decoded (UnicodeDecodeError); each exception propagates to the caller.
decrypt_data(key, encrypted_hex, nonce_hex) ==
    LET ciphertext == bytes_fromhex(encrypted_hex)
        nonce == bytes_fromhex(nonce_hex)
    IN  IF ~ciphertext.ok \/ ~nonce.ok THEN CipherRaised("ValueError")
        ELSE LET plaintext == AESGCM_decrypt(key, nonce.bytes, ciphertext.bytes)
             IN  IF ~plaintext.ok THEN CipherRaised("InvalidTag")
                 ELSE IF bytes_decode(plaintext.data).ok
                      THEN CipherReturned(Some(bytes_decode(plaintext.data).str))
                      ELSE CipherRaised("UnicodeDecodeError")

(***************************************************************************)
(* The cipher as a state machine: two instances are constructed, each      *)
(* generating its key; then _encrypt_data is called on either, and         *)
(* _decrypt_data is called, on either, with the hex ciphertext of the last *)
(* _encrypt_data call and a hex nonce.  enc records the last _encrypt_data *)
(* call and dec the last _decrypt_data call made on its output.            *)
(***************************************************************************)
\* No wrapper is constructed.
WrapperIdle ==
    /\ db = <<>>
    /\ call = NoCall
    /\ outcome = NoOutcome
    /\ log = <<>>
    /\ executed = <<>>

CipherInit ==
    /\ WrapperIdle
    /\ StoreIdle
    /\ ManagerIdle
    /\ keys \in [Instances -> Keys]
    /\ enc = NoEnc
    /\ dec = NoDec

\* Variant: every call generates a new key for the instance.
Encrypt_rekey ==
    \E inst \in Instances, plaintext \in Plaintexts, nonce \in Nonces, key \in Keys :
        LET out == encrypt_data(key, nonce, plaintext)
        IN  /\ enc' = [inst |-> inst, plaintext |-> plaintext, nonce |-> nonce,
                       encrypted_hex |-> out[1], nonce_hex |-> out[2]]
            /\ keys' = [keys EXCEPT ![inst] = key]
            /\ dec' = NoDec
            /\ UNCHANGED <<wrapperVars, storeVars, managerVars, harnessVars>>

Encrypt ==
    \E inst \in Instances, plaintext \in Plaintexts, nonce \in Nonces :
        LET out == encrypt_data(keys[inst], nonce, plaintext)
        IN  /\ enc' = [inst |-> inst, plaintext |-> plaintext, nonce |-> nonce,
                       encrypted_hex |-> out[1], nonce_hex |-> out[2]]
            /\ dec' = NoDec
            /\ UNCHANGED <<keys, wrapperVars, storeVars, managerVars, harnessVars>>

Decrypt ==
    /\ enc # NoEnc
    /\ \E inst \in Instances,
          nonce_hex \in {enc.nonce_hex} \cup { bytes_hex(n) : n \in Nonces } :
        LET r == decrypt_data(keys[inst], enc.encrypted_hex, nonce_hex)
        IN  /\ dec' = [inst |-> inst, encrypted_hex |-> enc.encrypted_hex,
                       nonce_hex |-> nonce_hex,
                       kind |-> r.kind, value |-> r.value, exc |-> r.exc]
            /\ UNCHANGED <<keys, enc, wrapperVars, storeVars, managerVars, harnessVars>>

CipherNext == Encrypt \/ Decrypt

CipherSpec == CipherInit /\ [][CipherNext]_vars

(***************************************************************************)
(* The tampering scenario of test_sql_007: one instance encrypts once, the *)
(* bytes of the hex ciphertext are changed at one position (the test       *)
(* changes the first byte, tampered[0] ^= 0xFF) and the result is          *)
(* decrypted once by the same instance with the nonce of the encryption.   *)
(***************************************************************************)
RECURSIVE Xor(_, _)
Xor(a, b) ==
    IF a = 0 THEN b
    ELSE IF b = 0 THEN a
    ELSE ((a + b) % 2) + 2 * Xor(a \div 2, b \div 2)

\* The changes made to a byte: each single bit, and all eight bits.
Masks == { 2^k : k \in 0..7 } \cup {255}

Tampered(bytes, i, mask) == [bytes EXCEPT ![i] = Xor(@, mask)]

EncryptOnce ==
    /\ enc = NoEnc
    /\ Encrypt

TamperedDecrypt ==
    /\ enc # NoEnc
    /\ dec = NoDec
    /\ LET encrypted_bytes == bytes_fromhex(enc.encrypted_hex).bytes
       IN  \E i \in 1..Len(encrypted_bytes), mask \in Masks :
               LET tampered_hex == bytes_hex(Tampered(encrypted_bytes, i, mask))
                   r == decrypt_data(keys[enc.inst], tampered_hex, enc.nonce_hex)
               IN  /\ dec' = [inst |-> enc.inst, encrypted_hex |-> tampered_hex,
                              nonce_hex |-> enc.nonce_hex,
                              kind |-> r.kind, value |-> r.value, exc |-> r.exc]
                   /\ UNCHANGED <<keys, enc, wrapperVars, storeVars, managerVars, harnessVars>>

TamperNext == EncryptOnce \/ TamperedDecrypt

TamperSpec == CipherInit /\ [][TamperNext]_vars

(***************************************************************************)
(* Properties of the cipher.                                               *)
(***************************************************************************)
\* _decrypt_data has been called on the output of the last _encrypt_data.
Decrypted == enc # NoEnc /\ dec # NoDec

\* That call failed with the authentication failure of the primitive and
\* returned nothing.
AuthenticationFailure ==
    dec.kind = "raise" /\ dec.exc = "InvalidTag" /\ dec.value = None

\* C12: round trip: the instance that encrypted p, given the hex ciphertext
\* and the hex nonce its _encrypt_data returned, decrypts them to exactly p.
C12_RoundTrip ==
    (/\ Decrypted
     /\ dec.inst = enc.inst
     /\ dec.encrypted_hex = enc.encrypted_hex
     /\ dec.nonce_hex = enc.nonce_hex)
        => (dec.kind = "return" /\ dec.value = Some(enc.plaintext))

\* A plaintext with a character of two bytes came back from its own pair.
C12_Witness ==
    /\ Decrypted
    /\ dec.inst = enc.inst
    /\ dec.nonce_hex = enc.nonce_hex
    /\ enc.plaintext = << 233 >>
    /\ dec.value = Some(<< 233 >>)

\* C13: tampering: whatever the plaintext, a ciphertext changed in any
\* single bit, or in all the bits of a byte as the test changes the first,
\* does not decrypt under the key and the nonce of its encryption: the call
\* fails with the authentication failure and returns no plaintext.
C13_TamperedCiphertextRejected ==
    (Decrypted /\ dec.inst = enc.inst /\ dec.nonce_hex = enc.nonce_hex
        /\ dec.encrypted_hex # enc.encrypted_hex)
        => AuthenticationFailure

\* The first byte of the ciphertext of a non-empty plaintext had all its
\* bits flipped, and the decryption was refused.
C13_Witness ==
    /\ Decrypted
    /\ enc.plaintext # <<>>
    /\ bytes_fromhex(dec.encrypted_hex).bytes
         = Tampered(bytes_fromhex(enc.encrypted_hex).bytes, 1, 255)
    /\ AuthenticationFailure

\* C14: key isolation: an instance whose key differs from the key of the
\* instance that encrypted cannot decrypt the pair that instance returned:
\* the call fails with the authentication failure, in both directions.
C14_OtherKeyRejected ==
    (/\ Decrypted
     /\ keys[dec.inst] # keys[enc.inst]
     /\ dec.encrypted_hex = enc.encrypted_hex
     /\ dec.nonce_hex = enc.nonce_hex)
        => AuthenticationFailure

\* B, holding another key than A, was refused the pair A produced.
C14_Witness ==
    /\ Decrypted
    /\ enc.inst = "A"
    /\ dec.inst = "B"
    /\ keys["A"] # keys["B"]
    /\ dec.nonce_hex = enc.nonce_hex
    /\ AuthenticationFailure

\* C15: the instance that encrypted, given the ciphertext with another
\* nonce than the one its _encrypt_data returned, fails with the
\* authentication failure; and a _decrypt_data call that fails, for this or
\* any other reason, returns no plaintext at all.
C15_OtherNonceRejected ==
    Decrypted =>
        /\ (/\ dec.inst = enc.inst
            /\ dec.encrypted_hex = enc.encrypted_hex
            /\ dec.nonce_hex # enc.nonce_hex) => AuthenticationFailure
        /\ dec.kind \in {"return", "raise"}
        /\ dec.kind = "raise" => dec.value = None

\* The encrypting instance was refused its own ciphertext under another
\* nonce.
C15_Witness ==
    /\ Decrypted
    /\ dec.inst = enc.inst
    /\ dec.nonce_hex # enc.nonce_hex
    /\ enc.plaintext # <<>>
    /\ AuthenticationFailure

\* C16 as stated: no nonce is used twice under an instance's key: an
\* _encrypt_data call (the step that clears dec) on the instance of the call
\* before it never draws the nonce that call drew.
C16_NonceNeverReused ==
    [][ (enc # NoEnc /\ dec' = NoDec /\ enc'.inst = enc.inst)
            => enc'.nonce # enc.nonce ]_vars

\* C16 amended: every _encrypt_data call draws its own nonce of NonceLen
\* random bytes, seals under it and returns its hex form, so that no caller
\* supplies a nonce; that two calls draw different nonces is a matter of
\* probability only.
C16_NonceDrawnByEachCall ==
    enc # NoEnc =>
        /\ enc.nonce \in Nonces
        /\ Len(enc.nonce_hex) = 2 * NonceLen
        /\ bytes_fromhex(enc.nonce_hex) = [ok |-> TRUE, bytes |-> enc.nonce]
        /\ AESGCM_decrypt(keys[enc.inst], enc.nonce,
                          bytes_fromhex(enc.encrypted_hex).bytes).ok

\* An instance has encrypted a non-empty plaintext under a nonce it drew.
C16_Witness ==
    /\ enc # NoEnc
    /\ dec = NoDec
    /\ enc.plaintext # <<>>
    /\ enc.nonce \in Nonces

\* C17: non-identity: the hex ciphertext of a non-empty plaintext p is not
\* p and is strictly longer than p: two hex digits for each byte of the
\* UTF-8 form of p and of the authentication tag.
C17_CiphertextLongerThanPlaintext ==
    (enc # NoEnc /\ enc.plaintext # <<>>) =>
        /\ enc.encrypted_hex # enc.plaintext
        /\ Len(enc.encrypted_hex) > Len(enc.plaintext)
        /\ Len(enc.encrypted_hex) = 2 * (Len(str_encode(enc.plaintext)) + TagLen)

\* The plaintext "a", itself a string of hex digits, was encrypted to 34
\* hex digits.
C17_Witness ==
    /\ enc.plaintext = << 97 >>
    /\ Len(enc.encrypted_hex) = 34
    /\ \A i \in 1..Len(enc.encrypted_hex) : IsHexDigit(enc.encrypted_hex[i])

\* C18: no call rekeys an instance: every step, an _encrypt_data call or a
\* _decrypt_data call that returns or fails, leaves each instance the key it
\* generated at construction.
C18_KeyNeverChanges == [][keys' = keys]_vars

\* A _decrypt_data call failed on an instance other than the encrypting
\* one, and both instances hold keys.
C18_Witness ==
    /\ Decrypted
    /\ dec.inst # enc.inst
    /\ dec.kind = "raise"
    /\ keys \in [Instances -> Keys]

(***************************************************************************)
(* The vault tables that BaseTest._create_test_tables creates, and the     *)
(* statements the tests execute on them through                            *)
(* DatabaseManager.execute_query, which commits a statement that succeeds  *)
(* and rolls back and re-raises one that fails.                            *)
(*                                                                         *)
(*   vault_users(user_id SERIAL PRIMARY KEY, username UNIQUE NOT NULL,     *)
(*               email UNIQUE NOT NULL)                                    *)
(*   vault_records(record_id SERIAL PRIMARY KEY,                           *)
(*                 user_id REFERENCES vault_users ON DELETE CASCADE,       *)
(*                 title NOT NULL, encrypted_data NOT NULL)                *)
(*                                                                         *)
(* A table is the set of its rows, a row a record of its columns (those    *)
(* with a default only are left out), NULL is None and a value v of a      *)
(* nullable column Some(v).  A sequence value drawn by a statement that    *)
(* fails is not given back.                                                *)
(***************************************************************************)
MaxUsers == 2

MaxRecords == 2

Usernames == {"alice", "bob"}

Emails == {"alice@vault.com", "bob@vault.com"}

Titles == {"Login"}

EncryptedData == {"data", "encrypted_v2"}

\* The user ids statements name: NULL, every id the sequence gives out and
\* one it never does (the tests use 99999).
UserIds == 1..(MaxUsers + 1)

\* The state of the tables and sequences, and the outcome of a statement
\* on it: the state it leaves, what execute_query returns and what it raises.
Store(us, rs, useq, rseq) ==
    [users |-> us, records |-> rs, user_seq |-> useq, record_seq |-> rseq]

Committed(S, res) == [store |-> S, results |-> res, raised |-> ""]

RolledBack(S, e) == [store |-> S, results |-> None, raised |-> e]

UserExists(S, user_id) == \E u \in S.users : u.user_id = user_id

\* The foreign key of vault_records.user_id: a NULL reference is not checked.
ForeignKeyHolds(S, user_id) == user_id = None \/ UserExists(S, user_id[1])

\* Variant: only the username column is declared UNIQUE.
insert_user_username_only(S, username, email) ==
    LET drawn == [S EXCEPT !.user_seq = @ + 1]
    IN  IF username = None \/ email = None
        THEN RolledBack(drawn, "NotNullViolation")
        ELSE IF \E u \in S.users : u.username = username[1]
        THEN RolledBack(drawn, "UniqueViolation")
        ELSE Committed(
                [drawn EXCEPT !.users = @ \cup
                    {[user_id |-> S.user_seq, username |-> username[1],
                      email |-> email[1]]}],
                None)

\* INSERT INTO vault_users (username, email) VALUES (%s, %s)
insert_user(S, username, email) ==
    LET drawn == [S EXCEPT !.user_seq = @ + 1]
    IN  IF username = None \/ email = None
        THEN RolledBack(drawn, "NotNullViolation")
        ELSE IF \E u \in S.users : u.username = username[1] \/ u.email = email[1]
        THEN RolledBack(drawn, "UniqueViolation")
        ELSE Committed(
                [drawn EXCEPT !.users = @ \cup
                    {[user_id |-> S.user_seq, username |-> username[1],
                      email |-> email[1]]}],
                None)

\* Variant: the user_id column references no table.
insert_record_unchecked(S, user_id, title, encrypted_data) ==
    LET drawn == [S EXCEPT !.record_seq = @ + 1]
    IN  IF title = None \/ encrypted_data = None
        THEN RolledBack(drawn, "NotNullViolation")
        ELSE Committed(
                [drawn EXCEPT !.records = @ \cup
                    {[record_id |-> S.record_seq, user_id |-> user_id,
                      title |-> title[1], encrypted_data |-> encrypted_data[1]]}],
                None)

\* INSERT INTO vault_records (user_id, title, encrypted_data)
\*     VALUES (%s, %s, %s)
insert_record(S, user_id, title, encrypted_data) ==
    LET drawn == [S EXCEPT !.record_seq = @ + 1]
    IN  IF title = None \/ encrypted_data = None
        THEN RolledBack(drawn, "NotNullViolation")
        ELSE IF ~ForeignKeyHolds(S, user_id)
        THEN RolledBack(drawn, "ForeignKeyViolation")
        ELSE Committed(
                [drawn EXCEPT !.records = @ \cup
                    {[record_id |-> S.record_seq, user_id |-> user_id,
                      title |-> title[1], encrypted_data |-> encrypted_data[1]]}],
                None)

\* UPDATE vault_records SET encrypted_data = %s WHERE title = %s
update_records(S, encrypted_data, title) ==
    IF ~\E r \in S.records : r.title = title THEN Committed(S, None)
    ELSE IF encrypted_data = None THEN RolledBack(S, "NotNullViolation")
    ELSE Committed(
            [S EXCEPT !.records =
                { IF r.title = title
                  THEN [r EXCEPT !.encrypted_data = encrypted_data[1]]
                  ELSE r : r \in @ }],
            None)

\* DELETE FROM vault_records WHERE user_id = %s
delete_records(S, user_id) ==
    Committed([S EXCEPT !.records = { r \in @ : r.user_id # Some(user_id) }], None)

\* Variant: the foreign key is declared ON DELETE SET NULL.
delete_user_set_null(S, user_id) ==
    Committed(
        [S EXCEPT !.users = { u \in @ : u.user_id # user_id },
                  !.records = { IF r.user_id = Some(user_id)
                                THEN [r EXCEPT !.user_id = None]
                                ELSE r : r \in @ }],
        None)

\* DELETE FROM vault_users WHERE user_id = %s, with the ON DELETE CASCADE
\* of the records that reference the user.
delete_user(S, user_id) ==
    Committed(
        [S EXCEPT !.users = { u \in @ : u.user_id # user_id },
                  !.records = { r \in @ : r.user_id # Some(user_id) }],
        None)

\* The lists holding each row of a set once: a SELECT without ORDER BY
\* returns its rows in any order.
Orderings(S) ==
    { q \in [1..Cardinality(S) -> S] : \A i, j \in 1..Cardinality(S) : q[i] = q[j] => i = j }

\* SELECT * FROM vault_records WHERE user_id = %s: the outcomes it can have.
select_records(S, user_id) ==
    { Committed(S, Some(q)) :
        q \in Orderings({ r \in S.records : r.user_id = Some(user_id) }) }

(***************************************************************************)
(* The store as a state machine: after setUpClass the tables exist and are *)
(* empty; then the statements are executed, one at a time, in any order,   *)
(* with values of the caller's choice.  The sequences are bounded: at most *)
(* MaxUsers user inserts and MaxRecords record inserts are attempted.      *)
(***************************************************************************)
CurrentStore == Store(users, records, user_seq, record_seq)

Nullable(S) == {None} \cup { Some(v) : v \in S }

StoreInit ==
    /\ WrapperIdle
    /\ CipherIdle
    /\ StoreIdle
    /\ ManagerIdle

InsertUser ==
    /\ user_seq <= MaxUsers
    /\ \E username \in Nullable(Usernames), email \in Nullable(Emails) :
           LET r == insert_user(CurrentStore, username, email)
           IN  /\ users' = r.store.users
               /\ records' = r.store.records
               /\ user_seq' = r.store.user_seq
               /\ record_seq' = r.store.record_seq
               /\ results' = r.results
               /\ raised' = r.raised
               /\ UNCHANGED <<wrapperVars, cipherVars, managerVars, harnessVars>>

InsertRecord ==
    /\ record_seq <= MaxRecords
    /\ \E user_id \in Nullable(UserIds), title \in Nullable(Titles) :
           LET r == insert_record(CurrentStore, user_id, title, Some("data"))
           IN  /\ users' = r.store.users
               /\ records' = r.store.records
               /\ user_seq' = r.store.user_seq
               /\ record_seq' = r.store.record_seq
               /\ results' = r.results
               /\ raised' = r.raised
               /\ UNCHANGED <<wrapperVars, cipherVars, managerVars, harnessVars>>

UpdateRecords ==
    \E encrypted_data \in Nullable(EncryptedData), title \in Titles :
        LET r == update_records(CurrentStore, encrypted_data, title)
        IN  /\ users' = r.store.users
            /\ records' = r.store.records
            /\ user_seq' = r.store.user_seq
            /\ record_seq' = r.store.record_seq
            /\ results' = r.results
            /\ raised' = r.raised
            /\ UNCHANGED <<wrapperVars, cipherVars, managerVars, harnessVars>>

DeleteRecords ==
    \E user_id \in UserIds :
        LET r == delete_records(CurrentStore, user_id)
        IN  /\ users' = r.store.users
            /\ records' = r.store.records
            /\ user_seq' = r.store.user_seq
            /\ record_seq' = r.store.record_seq
            /\ results' = r.results
            /\ raised' = r.raised
            /\ UNCHANGED <<wrapperVars, cipherVars, managerVars, harnessVars>>

DeleteUser ==
    \E user_id \in UserIds :
        LET r == delete_user(CurrentStore, user_id)
        IN  /\ users' = r.store.users
            /\ records' = r.store.records
            /\ user_seq' = r.store.user_seq
            /\ record_seq' = r.store.record_seq
            /\ results' = r.results
            /\ raised' = r.raised
            /\ UNCHANGED <<wrapperVars, cipherVars, managerVars, harnessVars>>

SelectRecords ==
    \E user_id \in UserIds :
        \E r \in select_records(CurrentStore, user_id) :
            /\ users' = r.store.users
            /\ records' = r.store.records
            /\ user_seq' = r.store.user_seq
            /\ record_seq' = r.store.record_seq
            /\ results' = r.results
            /\ raised' = r.raised
            /\ UNCHANGED <<wrapperVars, cipherVars, managerVars, harnessVars>>

StoreNext ==
    \/ InsertUser
    \/ InsertRecord
    \/ UpdateRecords
    \/ DeleteRecords
    \/ DeleteUser
    \/ SelectRecords

StoreSpec == StoreInit /\ [][StoreNext]_vars

(***************************************************************************)
(* Properties of the store.                                                *)
(***************************************************************************)
\* The record has no owner: its user_id is NULL.
Ownerless(r) == r.user_id = None

\* C19 as stated: in every reachable state every vault record's user_id
\* refers to a user that exists.
C19_NoOrphans ==
    \A r \in records : ~Ownerless(r) /\ \E u \in users : u.user_id = r.user_id[1]

\* What the foreign key does enforce: a record's user_id is NULL or the id
\* of an existing user.
ReferencesExistWhereSet ==
    \A r \in records : Ownerless(r) \/ \E u \in users : u.user_id = r.user_id[1]

\* C20: cascade delete: a step that deletes a user removes exactly the
\* records that user owns and leaves the other users and the other records
\* as they were; a query of the records of the deleted user then returns an
\* empty list, not None.
C20_CascadeDelete ==
    [][ \A u \in users : u \notin users' =>
            /\ users' = users \ {u}
            /\ records' = { r \in records : r.user_id # Some(u.user_id) }
            /\ { q.results : q \in select_records(
                     Store(users', records', user_seq', record_seq'), u.user_id) }
                 = { Some(<<>>) } ]_vars

\* Both users were inserted, each got a record, user 1 was deleted and its
\* records queried: user 2 and its record are there, the result is empty.
C20_Witness ==
    /\ user_seq = 3
    /\ record_seq = 3
    /\ { u.user_id : u \in users } = {2}
    /\ Cardinality(records) = 1
    /\ \A r \in records : r.user_id = Some(2)
    /\ results = Some(<<>>)
    /\ raised = ""

\* C21: an insert of a record whose user id is the id of no existing user
\* fails: execute_query raises (the foreign key violation, when the other
\* columns are acceptable) and returns nothing, and the rollback leaves the
\* stored records, and the users, as they were before the attempt.
C21_DanglingInsertRejected ==
    [][ /\ \A user_id \in UserIds, title \in Nullable(Titles) :
              ~UserExists(CurrentStore, user_id) =>
                  LET r == insert_record(CurrentStore, Some(user_id), title, Some("data"))
                  IN  /\ r.raised # ""
                      /\ title # None => r.raised = "ForeignKeyViolation"
                      /\ r.results = None
                      /\ r.store.records = records
                      /\ r.store.users = users
        /\ raised' = "ForeignKeyViolation" =>
              (records' = records /\ users' = users /\ results' = None) ]_vars

\* The second insert of a record named a user that does not exist and was
\* refused; the record inserted first is still the only one.
C21_Witness ==
    /\ raised = "ForeignKeyViolation"
    /\ record_seq = 3
    /\ Cardinality(records) = 1
    /\ \A r \in records : r.record_id = 1

\* C22: in every reachable state no two users share a username and no two
\* users share an email, and an insert of a user whose username or whose
\* email is that of an existing user raises and leaves the users table
\* unchanged.
C22_UniqueUsernameAndEmail ==
    /\ \A u, v \in users :
          (u.username = v.username \/ u.email = v.email) => u = v
    /\ \A username \in Usernames, email \in Emails :
          (\E u \in users : u.username = username \/ u.email = email) =>
              LET r == insert_user(CurrentStore, Some(username), Some(email))
              IN  /\ r.raised = "UniqueViolation"
                  /\ r.results = None
                  /\ r.store.users = users
                  /\ r.store.records = records

\* An insert of a second user was refused as a duplicate; the user inserted
\* first is still the only one.
C22_Witness ==
    /\ raised = "UniqueViolation"
    /\ user_seq = 3
    /\ Cardinality(users) = 1

(***************************************************************************)
(* framework/db_manager.py: DatabaseManager.execute_query over the         *)
(* driver's connection.  The connection runs its statements in one         *)
(* transaction at a time: status is "idle" (no transaction in progress),   *)
(* "open" (statements executed, neither committed nor rolled back),        *)
(* "aborted" (a statement of the transaction failed: the server refuses    *)
(* every statement until the rollback) or "closed" (the connection is      *)
(* lost); pending is the content of the tables as the open transaction     *)
(* sees it; cursors counts the cursors opened and not closed.  The         *)
(* sequences are not transactional: a value drawn stays drawn.             *)
(*                                                                         *)
(* The environment decides where a call is disturbed (faults): "execute",  *)
(* a KeyboardInterrupt that arrives in cursor.execute once the statement   *)
(* has run; "fetchall", an exception of cursor.fetchall; "commit" and      *)
(* "rollback", an exception of connection.commit or connection.rollback,   *)
(* the latter leaving the connection closed.                               *)
(***************************************************************************)
\* At most MaxManagerUsers user inserts and MaxManagerRecords record
\* inserts are attempted through the manager, and at most MaxLeakedCursors
\* calls are interrupted.
MaxManagerUsers == 1

MaxManagerRecords == 1

MaxLeakedCursors == 1

DbTypes == { "postgres", "mysql" }

VaultTables == { "vault_users", "vault_records" }

Faults ==
    { {}, {"execute"}, {"fetchall"}, {"commit"}, {"rollback"}, {"commit", "rollback"} }

\* psycopg2.connect(...) / pymysql.connect(...): a connection with no
\* transaction in progress and no cursor.
NewConnection == [status |-> "idle", pending |-> None, cursors |-> 0]

\* The tables as the connection's transaction sees them.
View(conn, S) == IF conn.pending = None THEN S ELSE conn.pending[1]

\* The committed tables S, with the sequences as the transaction that
\* reached T left them.
WithSequencesOf(S, T) ==
    [S EXCEPT !.user_seq = T.user_seq, !.record_seq = T.record_seq]

\* cursor.execute(query, params or ()): answer is what the statement does
\* to the transaction's view; a transaction that has failed refuses it.
cursor_execute(conn, S, answer) ==
    IF conn.status = "aborted"
    THEN RolledBack(View(conn, S), "InFailedSqlTransaction")
    ELSE answer

\* try: results = cursor.fetchall() / except: results = None.  Without a
\* result set, psycopg2's fetchall raises ProgrammingError and pymysql's
\* returns an empty sequence; the bare except catches every exception.
fetchall(dbt, result_set, faults) ==
    IF "fetchall" \in faults
    THEN None
    ELSE IF result_set = None
    THEN IF dbt = "postgres" THEN None ELSE Some(<<>>)
    ELSE result_set

\* Variant: the handler closes the cursor and re-raises, without rollback.
on_exception_no_rollback(conn, S, T, e, faults) ==
    [connection |-> [conn EXCEPT !.status = "aborted"],
     store |-> WithSequencesOf(S, T),
     results |-> None,
     raised |-> e]

\* Variant: the handler commits what the transaction holds.
on_exception_commit(conn, S, T, e, faults) ==
    [connection |-> [conn EXCEPT !.status = "idle", !.pending = None],
     store |-> T,
     results |-> None,
     raised |-> e]

\* except Exception as e: self.connection.rollback(); cursor.close();
\* raise e.  conn is the connection as it was before the call (the call's
\* cursor is one more), T the transaction's tables.  A rollback that raises
\* ends the handler there: the cursor stays open and the rollback's
\* exception is the one that propagates.
on_exception(conn, S, T, e, faults) ==
    IF "rollback" \in faults
    THEN [connection |-> [conn EXCEPT !.status = "closed", !.pending = None,
                                      !.cursors = @ + 1],
          store |-> WithSequencesOf(S, T),
          results |-> None,
          raised |-> "InterfaceError"]
    ELSE [connection |-> [conn EXCEPT !.status = "idle", !.pending = None],
          store |-> WithSequencesOf(S, T),
          results |-> None,
          raised |-> e]

\* DatabaseManager.execute_query(query, params) on connection conn of
\* driver dbt, the committed tables being S; answer is what the statement
\* does to the transaction's view.  Yields the connection and the committed
\* tables after the call, and what the call returned or raised.
execute_query(conn, dbt, S, answer, faults) ==
    IF conn.status = "closed"
    THEN \* self.connection.cursor() raises, before the try
         [connection |-> conn, store |-> S, results |-> None,
          raised |-> "InterfaceError"]
    ELSE LET ran == cursor_execute(conn, S, answer)
             fetched == fetchall(dbt, ran.results, faults)
         IN  IF ran.raised # ""
             THEN on_exception(conn, S, ran.store, ran.raised, faults)
             ELSE IF "execute" \in faults
             THEN \* KeyboardInterrupt is no Exception: no handler runs
                  [connection |-> [conn EXCEPT !.status = "open",
                                               !.pending = Some(ran.store),
                                               !.cursors = @ + 1],
                   store |-> WithSequencesOf(S, ran.store),
                   results |-> None,
                   raised |-> "KeyboardInterrupt"]
             ELSE IF "commit" \in faults
             THEN on_exception(conn, S, ran.store, "OperationalError", faults)
             ELSE [connection |-> [conn EXCEPT !.status = "idle", !.pending = None],
                   store |-> ran.store,
                   results |-> fetched,
                   raised |-> ""]

(***************************************************************************)
(* The statements sent through the manager, and the wrapper's safe_execute *)
(* over it.                                                                *)
(***************************************************************************)
Statement(kind, args) == [kind |-> kind, args |-> args]

\* The users the tests insert, and the user ids their statements name: the
\* id of the first user inserted, and an id that no user has (the tests
\* use 99999).
Accounts == { <<"alice", "alice@vault.com">>, <<"bob", "bob@vault.com">> }

FirstUserId == 1

AbsentUserId == MaxUsers + 1

Statements ==
    { Statement("insert_user", a) : a \in Accounts }
    \cup { Statement(kind, <<u>>) :
              kind \in {"insert_record", "delete_user", "select_records"},
              u \in {FirstUserId, AbsentUserId} }

\* The statement produces a result set.
ProducesResultSet(stmt) == stmt.kind = "select_records"

SqlText(stmt) ==
    CASE stmt.kind = "insert_user" ->
            <<"INSERT INTO vault_users (username, email) VALUES (%s, %s)">>
      [] stmt.kind = "insert_record" ->
            <<"INSERT INTO vault_records (user_id, title, encrypted_data) VALUES (%s, %s, %s)">>
      [] stmt.kind = "delete_user" ->
            <<"DELETE FROM vault_users WHERE user_id = %s">>
      [] stmt.kind = "select_records" ->
            <<"SELECT * FROM vault_records WHERE user_id = %s">>

\* What the statement can do to tables S.
Server(S, stmt) ==
    CASE stmt.kind = "insert_user" ->
            { insert_user(S, Some(stmt.args[1]), Some(stmt.args[2])) }
      [] stmt.kind = "insert_record" ->
            { insert_record(S, Some(stmt.args[1]), Some("Login"), Some("data")) }
      [] stmt.kind = "delete_user" ->
            { delete_user(S, stmt.args[1]) }
      [] stmt.kind = "select_records" ->
            select_records(S, stmt.args[1])

\* The exception object of the driver: its class among the wrapper's
\* classes (the driver's errors derive from Exception, the constraint
\* violations from IntegrityError) and its message.
DriverException(e) ==
    Exc(IF e = "KeyboardInterrupt" THEN "KeyboardInterrupt"
        ELSE IF e \in {"ForeignKeyViolation", "UniqueViolation", "NotNullViolation"}
        THEN "IntegrityError"
        ELSE "Exception",
        CASE e = "ForeignKeyViolation" ->
                <<"insert or update on table vault_records violates ",
                  "foreign key", " constraint vault_records_user_id_fkey">>
          [] e = "UniqueViolation" ->
                <<"duplicate key value violates ", "unique", " constraint">>
          [] OTHER -> <<e>>)

\* self.db.execute_query as the wrapper sees it.
AsExecutor(q) ==
    [raises |-> q.raised # "",
     exc |-> IF q.raised # "" THEN DriverException(q.raised) ELSE NoExc,
     result |-> q.results]

\* The state after setUpClass and setUp: connected, the tables exist and
\* are empty.
ManagerInit ==
    /\ WrapperIdle
    /\ CipherIdle
    /\ StoreIdle
    /\ db_type \in DbTypes
    /\ connection = Some(NewConnection)
    /\ tables = VaultTables
    /\ phase = ""

\* The call is within the bounds of the model.
WithinBounds(stmt, faults) ==
    /\ stmt.kind = "insert_user" => user_seq <= MaxManagerUsers
    /\ stmt.kind = "insert_record" => record_seq <= MaxManagerRecords
    /\ "execute" \in faults => connection[1].cursors < MaxLeakedCursors

ManagerStep(q) ==
    /\ connection' = Some(q.connection)
    /\ users' = q.store.users
    /\ records' = q.store.records
    /\ user_seq' = q.store.user_seq
    /\ record_seq' = q.store.record_seq
    /\ results' = q.results
    /\ raised' = q.raised
    /\ UNCHANGED <<db, db_type, cipherVars, harnessVars>>

\* A test calls self.db.execute_query(query, params).
ExecuteQuery ==
    \E stmt \in Statements, faults \in Faults :
        /\ WithinBounds(stmt, faults)
        /\ \E answer \in Server(View(connection[1], CurrentStore), stmt) :
              LET q == execute_query(connection[1], db_type, CurrentStore, answer, faults)
              IN  /\ ManagerStep(q)
                  /\ call' = Call("execute_query", SqlText(stmt), Some(stmt.args), 0, None)
                  /\ outcome' = NoOutcome
                  /\ log' = <<>>
                  /\ executed' = <<>>

\* A test calls self.db_utils.safe_execute(query, params), the wrapper
\* having been constructed over the manager.
SafeExecuteQuery ==
    \E stmt \in Statements, faults \in Faults :
        /\ WithinBounds(stmt, faults)
        /\ \E answer \in Server(View(connection[1], CurrentStore), stmt) :
              LET q == execute_query(connection[1], db_type, CurrentStore, answer, faults)
                  r == safe_execute(AsExecutor(q), SqlText(stmt), Some(stmt.args))
              IN  /\ ManagerStep(q)
                  /\ call' = Call("safe_execute", SqlText(stmt), Some(stmt.args), 0, None)
                  /\ outcome' = Outcome(r)
                  /\ log' = r.log
                  /\ executed' = r.executed

ManagerNext == ExecuteQuery \/ SafeExecuteQuery

ManagerSpec == ManagerInit /\ [][ManagerNext]_vars

(***************************************************************************)
(* Properties of the manager and of the wrapper over it.                   *)
(***************************************************************************)
\* safe_execute was called with a record insert that the server refused
\* for its user id.
ForeignKeyRefused ==
    /\ call.op = "safe_execute"
    /\ raised = "ForeignKeyViolation"

\* C23: when a record insert with a non-existent user id goes through
\* safe_execute (the API-003 flow), the caller obtains an error whose
\* message tells of the foreign key constraint, and no record without a
\* user is created.
C23_CallerObtainsForeignKeyError ==
    ForeignKeyRefused =>
        /\ outcome.kind = "raise"
        /\ Contains(outcome.exc.msg, <<"foreign key">>)
        /\ \A r \in records : UserExists(CurrentStore, r.user_id[1])

\* What the caller of safe_execute does get: False, the message going to
\* the log only; and the record is not stored.
ForeignKeyFailureIsLoggedOnly ==
    ForeignKeyRefused =>
        /\ outcome = [kind |-> "return", value |-> Some(FALSE), exc |-> NoExc]
        /\ Len(log) = 1
        /\ log[1].level = "ERROR"
        /\ Contains(log[1].msg, <<"foreign key">>)
        /\ \A r \in records : UserExists(CurrentStore, r.user_id[1])

\* The statement of a call of the manager or of safe_execute over it.
StatementOf(c) ==
    CHOOSE stmt \in Statements :
        SqlText(stmt) = c.query /\ Some(stmt.args) = c.params

\* What the statement of the call that ends a step could do to the tables
\* as the connection saw them before the step.
Answers == Server(View(connection[1], CurrentStore), StatementOf(call'))

\* The connection after a call that committed or rolled back: no
\* transaction in progress, and the call's cursor closed.
Settled ==
    connection' = Some([connection[1] EXCEPT !.status = "idle", !.pending = None])

TablesUnchanged == users' = users /\ records' = records

\* C24 as claimed: a call that succeeds has committed the statement's
\* change; a call in which the statement or the commit raises has rolled
\* the transaction back, leaves the tables as they were and raises that
\* same exception.
C24_RolledBackAndReraised ==
    [][ connection[1].status # "closed" =>
          /\ raised' = "" =>
                /\ Settled
                /\ \E a \in Answers :
                      a.raised = "" /\ users' = a.store.users /\ records' = a.store.records
          /\ raised' # "" =>
                /\ Settled
                /\ TablesUnchanged
                /\ \A a \in Answers : a.raised # "" => raised' = a.raised ]_vars

\* C24: a call that succeeds has committed what the connection's
\* transaction held, the statement's change included.  When the statement
\* or the commit raises an exception derived from Exception, the
\* transaction is rolled back, the tables are as before and that exception
\* is re-raised, unless the rollback itself raises: then the rollback's
\* exception propagates in its place, the connection being lost.  A
\* KeyboardInterrupt propagates with no rollback and leaves the
\* transaction, with the statement's change, open.  On a lost connection
\* the call raises before any statement runs.  No failing call changes the
\* committed tables.
C24_StatementIsOneTransaction ==
    [][ /\ raised' # "" => TablesUnchanged
        /\ connection[1].status = "closed" =>
              raised' = "InterfaceError" /\ connection' = connection
        /\ connection[1].status # "closed" =>
              CASE raised' = "" ->
                      /\ Settled
                      /\ \E a \in Answers :
                            /\ a.raised = ""
                            /\ users' = a.store.users
                            /\ records' = a.store.records
                [] raised' = "KeyboardInterrupt" ->
                      \E a \in Answers :
                          /\ a.raised = ""
                          /\ connection' =
                                Some([connection[1] EXCEPT !.status = "open",
                                                           !.pending = Some(a.store),
                                                           !.cursors = @ + 1])
                [] raised' = "InterfaceError" ->
                      connection' =
                          Some([connection[1] EXCEPT !.status = "closed",
                                                     !.pending = None,
                                                     !.cursors = @ + 1])
                [] OTHER ->
                      /\ Settled
                      /\ \/ raised' = "OperationalError" /\ \E a \in Answers : a.raised = ""
                         \/ \E a \in Answers : a.raised = raised' ]_vars

\* The commit of a user insert failed: the exception of the commit was
\* re-raised after the rollback, the id was drawn and no user is stored.
C24_Witness ==
    /\ raised = "OperationalError"
    /\ StatementOf(call).kind = "insert_user"
    /\ connection[1].status = "idle"
    /\ user_seq = 2
    /\ users = {}

\* safe_execute of a statement that is valid on the tables as the
\* connection sees them, in a call that nothing disturbs: what the manager
\* does with it, and what the wrapper returns.
UndisturbedWrites(conn, S) ==
    UNION { { [answer |-> a,
               q |-> execute_query(conn, db_type, S, a, {}),
               value |-> safe_execute(
                            AsExecutor(execute_query(conn, db_type, S, a, {})),
                            SqlText(stmt), Some(stmt.args)).value] :
                a \in { b \in Server(View(conn, S), stmt) : b.raised = "" } } :
            stmt \in Statements }

\* The last call was a safe_execute that returned False.
ReturnedFalse ==
    call.op = "safe_execute" /\ outcome.kind = "return" /\ outcome.value = Some(FALSE)

\* C25 as claimed: after a safe_execute that returned False, every valid
\* statement sent next returns True and is committed.
C25_LaterWritesSucceed ==
    ReturnedFalse =>
        \A w \in UndisturbedWrites(connection[1], CurrentStore) :
            w.value = Some(TRUE) /\ w.q.store = w.answer.store

\* C25: a safe_execute that returned False has left the committed tables
\* as they were and the connection without a transaction in progress.
\* While the connection is not lost, every valid statement, when nothing
\* disturbs its call, returns True and is committed; once it is lost (a
\* rollback failed), every call returns False and changes nothing.
C25_FailedWriteDoesNotPoison ==
    [][ /\ ReturnedFalse' =>
              /\ TablesUnchanged
              /\ connection'[1].status \in {"idle", "closed"}
              /\ connection'[1].pending = None
        /\ \A w \in UndisturbedWrites(connection'[1], CurrentStore') :
              IF connection'[1].status = "closed"
              THEN w.value = Some(FALSE) /\ w.q.store = CurrentStore'
              ELSE /\ w.value = Some(TRUE)
                   /\ w.q.store = w.answer.store
                   /\ w.q.connection.status = "idle" ]_vars

\* A record insert had failed (its id was drawn and no record is stored);
\* the insert of a user sent afterwards through safe_execute returned True
\* and the user is stored.
C25_Witness ==
    /\ record_seq = 2
    /\ records = {}
    /\ call.op = "safe_execute"
    /\ StatementOf(call).kind = "insert_user"
    /\ outcome.value = Some(TRUE)
    /\ users # {}

(***************************************************************************)
(* Further properties of the wrapper over an arbitrary executor.           *)
(***************************************************************************)
ReadOperations == { "fetch_one_or_raise", "fetch_value_or_raise", "fetch_all_safe" }

\* C26: when execute_query raises during fetch_one_or_raise,
\* fetch_value_or_raise or fetch_all_safe, the call raises that same
\* exception, class and message unchanged: it returns nothing and raises
\* no NotFound (ValueError) in its place.
C26_ReadPathPropagates ==
    (call.op \in ReadOperations /\ db.raises) =>
        /\ outcome.kind = "raise"
        /\ outcome.value = None
        /\ outcome.exc = db.exc

\* fetch_all_safe was called over an executor that raises an
\* IntegrityError with a message, and that exception came out of it.
C26_Witness ==
    /\ call.op = "fetch_all_safe"
    /\ db.raises
    /\ db.exc.type = "IntegrityError"
    /\ db.exc.msg # <<>>
    /\ outcome.kind = "raise"
    /\ outcome.exc = db.exc

\* C29: every call of a wrapper operation has made exactly one call of the
\* executor's execute_query, with the query and the params of the caller,
\* however the call ended: with a value, with NotFound or an index error,
\* or with the executor's exception, absorbed or not.
C29_ExecutedExactlyOnce ==
    call.op # "" =>
        /\ Len(executed) = 1
        /\ executed[1] = <<call.query, call.params>>

\* fetch_value_or_raise returned a cell of a row: one execution.  (The
\* failure paths are reached as well: see the witnesses of C26 and C1.)
C29_Witness ==
    /\ call.op = "fetch_value_or_raise"
    /\ call.params # None
    /\ outcome.kind = "return"
    /\ executed = << <<call.query, call.params>> >>

(***************************************************************************)
(* Further properties of the manager.                                      *)
(***************************************************************************)
\* A call through the manager has returned.
ManagerReturned == call.op \in {"execute_query", "safe_execute"} /\ raised = ""

\* C27: a call of execute_query that returns, returns None exactly when the
\* statement produces no result set, and a sequence of rows (an empty one
\* when no row matches) exactly when it produces one.
C27_AbsentIffNoResultSet ==
    ManagerReturned =>
        (results = None <=> ~ProducesResultSet(StatementOf(call)))

\* What the code keeps of it: with psycopg2 a statement without a result
\* set returns None.
AbsentWithThePostgresDriver ==
    (ManagerReturned /\ db_type = "postgres") =>
        (~ProducesResultSet(StatementOf(call)) => results = None)

\* C30: every call of execute_query closes the cursor it opened before it
\* returns or raises, so that after any sequence of calls the connection
\* has no open cursor.
C30_NoCursorStaysOpen == connection[1].cursors = 0

\* What the code keeps of it: a call leaves its cursor open only when it
\* ends with a KeyboardInterrupt or with the exception of a rollback that
\* failed; every other call, returning or raising, has closed its cursor,
\* and a call on a lost connection has opened none.
CursorClosedUnlessCutShort ==
    [][ IF connection[1].status # "closed"
            /\ raised' \in {"KeyboardInterrupt", "InterfaceError"}
        THEN connection'[1].cursors = connection[1].cursors + 1
        ELSE connection'[1].cursors = connection[1].cursors ]_vars

(***************************************************************************)
(* framework/base_test.py: the fixtures of a test class.  unittest calls   *)
(* setUpClass once, then for each test method setUp and, if setUp          *)
(* returned, the method's body, and tearDownClass once after the last      *)
(* test.  A test whose setUp or body raises is over (the next test         *)
(* follows); a class whose setUpClass raises runs no test and no           *)
(* tearDownClass; a KeyboardInterrupt ends the whole run.  phase is ""     *)
(* before setUpClass, "class" between tests, "body" inside a test method,  *)
(* "done" after tearDownClass, "class_error" and "interrupted" after the   *)
(* two abnormal ends.                                                      *)
(***************************************************************************)
\* A fixture's view of the database: the manager's connection, the
\* committed tables and which of them exist, and how its last
\* execute_query call ended.
Fixture(conn, S, tbls, res, e) ==
    [connection |-> conn, store |-> S, tables |-> tbls, results |-> res, raised |-> e]

\* What a statement of the fixtures does, on tables S of which tbls exist:
\* the tables that exist afterwards, and the answer of the server.
Ddl(tbls, answer) == [tables |-> tbls, answer |-> answer]

FixtureServer(tbls, S, kind) ==
    CASE kind = "create_users" ->
            \* CREATE TABLE IF NOT EXISTS vault_users
            Ddl(tbls \cup {"vault_users"}, Committed(S, None))
      [] kind = "create_records" ->
            \* CREATE TABLE IF NOT EXISTS vault_records, which references vault_users
            IF "vault_users" \in tbls
            THEN Ddl(tbls \cup {"vault_records"}, Committed(S, None))
            ELSE Ddl(tbls, RolledBack(S, "UndefinedTable"))
      [] kind = "create_index" ->
            \* CREATE INDEX IF NOT EXISTS idx_user_id ON vault_records(user_id)
            IF "vault_records" \in tbls
            THEN Ddl(tbls, Committed(S, None))
            ELSE Ddl(tbls, RolledBack(S, "UndefinedTable"))
      [] kind = "delete_all_records" ->
            \* DELETE FROM vault_records
            IF "vault_records" \in tbls
            THEN Ddl(tbls, Committed([S EXCEPT !.records = {}], None))
            ELSE Ddl(tbls, RolledBack(S, "UndefinedTable"))
      [] kind = "delete_all_users" ->
            \* DELETE FROM vault_users, cascading to the records of the users
            IF "vault_users" \in tbls
            THEN Ddl(tbls,
                     Committed([S EXCEPT !.users = {},
                                         !.records = { r \in @ : r.user_id = None }],
                               None))
            ELSE Ddl(tbls, RolledBack(S, "UndefinedTable"))
      [] kind = "drop_records" ->
            \* DROP TABLE IF EXISTS vault_records CASCADE, its sequence included
            Ddl(tbls \ {"vault_records"},
                Committed([S EXCEPT !.records = {}, !.record_seq = 1], None))
      [] kind = "drop_users" ->
            \* DROP TABLE IF EXISTS vault_users CASCADE, its sequence included
            Ddl(tbls \ {"vault_users"},
                Committed([S EXCEPT !.users = {}, !.user_seq = 1], None))

\* cls.db.execute_query(statement) in a fixture.
fixture_execute(F, kind, faults) ==
    LET does == FixtureServer(F.tables, View(F.connection, F.store), kind)
        q == execute_query(F.connection, "postgres", F.store, does.answer, faults)
    IN  Fixture(q.connection, q.store,
                IF q.raised = "" THEN does.tables ELSE F.tables,
                q.results, q.raised)

\* The execute_query calls of a fixture, in order, up to the first that
\* raises; faultseq tells where each call is disturbed.
RECURSIVE run_script(_, _, _)
run_script(F, script, faultseq) ==
    IF script = <<>>
    THEN F
    ELSE LET called == fixture_execute(F, Head(script), Head(faultseq))
         IN  IF called.raised # ""
             THEN called
             ELSE run_script(called, Tail(script), Tail(faultseq))

\* BaseTest.setUpClass: DatabaseManager(db_type='postgres'), connect() and
\* _create_test_tables().  connects: psycopg2.connect returns a connection.
setUpClass(S, tbls, connects, faultseq) ==
    IF ~connects
    THEN Fixture(None, S, tbls, None, "OperationalError")
    ELSE LET created == run_script(Fixture(NewConnection, S, tbls, None, ""),
                                   <<"create_users", "create_records", "create_index">>,
                                   faultseq)
         IN  [created EXCEPT !.connection = Some(@)]

\* Variant: only the records are deleted before a test.
setUp_records_only(F, faultseq) ==
    run_script(F, <<"delete_all_records">>, faultseq)

\* BaseTest.setUp: DELETE FROM vault_records, then DELETE FROM vault_users.
setUp(F, faultseq) ==
    run_script(F, <<"delete_all_records", "delete_all_users">>, faultseq)

\* DatabaseManager.close(): if self.connection: self.connection.close().
close(conn) == [conn EXCEPT !.status = "closed", !.pending = None]

\* BaseTest.tearDownClass: the two DROP TABLE statements, then close().
tearDownClass(F, faultseq) ==
    LET dropped == run_script(F, <<"drop_records", "drop_users">>, faultseq)
    IN  IF dropped.raised # ""
        THEN dropped
        ELSE [dropped EXCEPT !.connection = close(@)]

\* What the database holds when the class starts: nothing, or the tables
\* of an earlier run (setup_db.py, a class that was interrupted) with the
\* rows it left behind.
Leftovers ==
    { Store({}, {}, 1, 1),
      Store({[user_id |-> 1, username |-> "alice", email |-> "alice@vault.com"]},
            {}, 2, 1),
      Store({[user_id |-> 1, username |-> "alice", email |-> "alice@vault.com"]},
            {[record_id |-> 1, user_id |-> Some(1), title |-> "Login",
              encrypted_data |-> "data"],
             [record_id |-> 2, user_id |-> None, title |-> "Login",
              encrypted_data |-> "data"]},
            2, 3) }

LifecycleInit ==
    /\ WrapperIdle
    /\ CipherIdle
    /\ db_type = ""
    /\ connection = None
    /\ phase = ""
    /\ results = None
    /\ raised = ""
    /\ \/ /\ tables = {}
          /\ users = {}
          /\ records = {}
          /\ user_seq = 1
          /\ record_seq = 1
       \/ /\ tables = VaultTables
          /\ \E S \in Leftovers :
                /\ users = S.users
                /\ records = S.records
                /\ user_seq = S.user_seq
                /\ record_seq = S.record_seq

\* The state the fixtures work on.
CurrentFixture ==
    Fixture(connection[1], CurrentStore, tables, results, raised)

FixtureStep(F) ==
    /\ users' = F.store.users
    /\ records' = F.store.records
    /\ user_seq' = F.store.user_seq
    /\ record_seq' = F.store.record_seq
    /\ tables' = F.tables
    /\ results' = F.results
    /\ raised' = F.raised

\* How the run goes on after a fixture or a statement that raised e.
Interrupted(e) == e = "KeyboardInterrupt"

SetUpClass ==
    /\ phase = ""
    /\ \E connects \in BOOLEAN, faultseq \in [1..3 -> Faults] :
          LET F == setUpClass(CurrentStore, tables, connects, faultseq)
          IN  /\ FixtureStep(F)
              /\ db_type' = "postgres"
              /\ connection' = F.connection
              /\ phase' = IF F.raised = "" THEN "class"
                          ELSE IF Interrupted(F.raised) THEN "interrupted"
                          ELSE "class_error"
    /\ UNCHANGED <<wrapperVars, cipherVars>>

SetUp ==
    /\ phase = "class"
    /\ \E faultseq \in [1..2 -> Faults] :
          LET F == setUp(CurrentFixture, faultseq)
          IN  /\ FixtureStep(F)
              /\ connection' = Some(F.connection)
              /\ phase' = IF F.raised = "" THEN "body"
                          ELSE IF Interrupted(F.raised) THEN "interrupted"
                          ELSE "class"
    /\ UNCHANGED <<db_type, wrapperVars, cipherVars>>

\* A statement of a test method's body.
TestStatement ==
    /\ phase = "body"
    /\ \E stmt \in Statements, faults \in Faults :
          /\ WithinBounds(stmt, faults)
          /\ \E answer \in Server(View(connection[1], CurrentStore), stmt) :
                LET q == execute_query(connection[1], db_type, CurrentStore, answer, faults)
                IN  /\ FixtureStep(Fixture(q.connection, q.store, tables, q.results, q.raised))
                    /\ connection' = Some(q.connection)
                    /\ phase' = IF Interrupted(q.raised) THEN "interrupted" ELSE "body"
    /\ UNCHANGED <<db_type, wrapperVars, cipherVars>>

\* The test method returns, or fails on an assertion or on an exception.
TestEnds ==
    /\ phase = "body"
    /\ phase' = "class"
    /\ UNCHANGED <<db_type, connection, tables, wrapperVars, cipherVars, storeVars>>

TearDownClass ==
    /\ phase = "class"
    /\ \E faultseq \in [1..2 -> Faults] :
          LET F == tearDownClass(CurrentFixture, faultseq)
          IN  /\ FixtureStep(F)
              /\ connection' = Some(F.connection)
              /\ phase' = IF Interrupted(F.raised) THEN "interrupted" ELSE "done"
    /\ UNCHANGED <<db_type, wrapperVars, cipherVars>>

LifecycleNext == SetUpClass \/ SetUp \/ TestStatement \/ TestEnds \/ TearDownClass

LifecycleSpec == LifecycleInit /\ [][LifecycleNext]_vars

\* C28: whatever the database held when the class started and whatever the
\* earlier tests did or left behind, every test method's body starts with
\* both vault tables existing and empty, on a connection with no
\* transaction in progress.  The manager's connection is used only between
\* connect and close: every fixture and statement after setUpClass runs on
\* the connection setUpClass opened, and after tearDownClass, which closes
\* it last, nothing runs.
C28_TestIsolation ==
    [][ /\ (phase # "body" /\ phase' = "body") =>
              /\ tables' = VaultTables
              /\ users' = {}
              /\ records' = {}
              /\ connection'[1].status = "idle"
              /\ connection'[1].pending = None
        /\ phase # "" => connection # None
        /\ phase # "done"
        /\ phase' = "done" =>
              (raised' = "" => connection'[1].status = "closed") ]_vars

\* A test body has started on empty tables although a user had been
\* inserted before it (its id was drawn), by an earlier test or by an
\* earlier run: setUp has deleted it.
C28_Witness ==
    /\ phase = "body"
    /\ tables = VaultTables
    /\ user_seq = 2
    /\ users = {}
    /\ records = {}
    /\ raised = ""

====
